---------------------------- MODULE Spec2Model ----------------------------
(***************************************************************************)
(* Sears Melvin Memorials: the lead-intake pipeline.                       *)
(*                                                                         *)
(*   - the Pages Function /api/submit (src/functions/api/submit.js):       *)
(*     onRequestPost, handleQuoteRequest, handleEnquiry and the adapters   *)
(*     sendEmail, createClickUpTask, insertSupabaseRecord,                 *)
(*     createGHLContact, createStripeInvoice;                              *)
(*   - the Worker's POST /stripe-webhook (src/unnamed/part_004) with       *)
(*     verifyStripeWebhookSig.                                             *)
(*                                                                         *)
(* One run of a handler is a sequence of actions, one per external call    *)
(* (each `await fetch`), with the synchronous code around the call folded  *)
(* into the action.  Every external call answers nondeterministically.     *)
(*                                                                         *)
(* JavaScript values:                                                      *)
(*   - a string is a sequence of one-character strings; undefined, null    *)
(*     and "" are all falsy and the code only ever tests these fields for  *)
(*     truthiness or hands them to parseFloat, so an absent string field   *)
(*     is the empty sequence;                                              *)
(*   - a number is [nan, v]: v counts hundredths (pence), so               *)
(*     Math.round(x * 100) of a price with at most two decimals is v;      *)
(*     the price strings of the model carry at most two decimals.          *)
(***************************************************************************)
EXTENDS Integers, Sequences, FiniteSets, TLC

VARIABLES
    env,               \* the deployment's environment bindings (which secrets are set)
    req,               \* the request being handled
    pc,                \* the handler's position (the await it is suspended at)
    calls,             \* the external calls made by this run, in order, with their outcome
    steps,             \* the orchestration steps entered by this run, in order
    resp,              \* the response of this run (NoResponse until it is sent)
    stripeInvoiceUrl,  \* handleQuoteRequest's local stripeInvoiceUrl
    invoiceId,         \* handleQuoteRequest's local invoiceId
    sbInvoiceId,       \* insertSupabaseRecord's local invoiceId
    i,                 \* createStripeInvoice: index of the add-on the loops have reached
    customerId,        \* createStripeInvoice's local customerId (0: not assigned)
    invoice,           \* createStripeInvoice's local invoice (0: not assigned)
    store,             \* the record store: the customers and orders rows of the requester's email
    stripe,            \* the payment processor: the customers, pending items and invoices
                       \* of the requester's email
    parked             \* another invocation, suspended at an await while this one runs

vars == <<env, req, pc, calls, steps, resp, stripeInvoiceUrl, invoiceId, sbInvoiceId, i,
          customerId, invoice, store, stripe, parked>>

---------------------------------------------------------------------------
(* Bounds of the model.                                                    *)

\* longest addonLineItems / addons list of a product
MaxAddons == 2

---------------------------------------------------------------------------
(* JavaScript numbers and strings.                                         *)

Num(v) == [nan |-> FALSE, v |-> v]
NaN == [nan |-> TRUE, v |-> 0]

\* a + b
Plus(a, b) == IF a.nan \/ b.nan THEN NaN ELSE Num(a.v + b.v)

\* a - b
Minus(a, b) == IF a.nan \/ b.nan THEN NaN ELSE Num(a.v - b.v)

\* Math.max(0, a): NaN when a is NaN
Max0(a) == IF a.nan THEN NaN ELSE IF a.v > 0 THEN a ELSE Num(0)

\* a > 0: false for NaN
Gt0(a) == ~a.nan /\ a.v > 0

\* truthiness of a string: non-empty
Truthy(s) == Len(s) > 0

IsDigit(c) == c \in {"0", "1", "2", "3", "4", "5", "6", "7", "8", "9"}

DigitVal(c) ==
    CASE c = "0" -> 0 [] c = "1" -> 1 [] c = "2" -> 2 [] c = "3" -> 3
      [] c = "4" -> 4 [] c = "5" -> 5 [] c = "6" -> 6 [] c = "7" -> 7
      [] c = "8" -> 8 [] c = "9" -> 9

\* the longest prefix of s made of decimal digits
RECURSIVE TakeDigits(_)
TakeDigits(s) ==
    IF Len(s) > 0 /\ IsDigit(s[1]) THEN <<s[1]>> \o TakeDigits(Tail(s)) ELSE <<>>

\* the value of a sequence of digits
RECURSIVE DigitsValue(_)
DigitsValue(ds) ==
    IF Len(ds) = 0 THEN 0
    ELSE DigitsValue(SubSeq(ds, 1, Len(ds) - 1)) * 10 + DigitVal(ds[Len(ds)])

\* s without its leading white space
RECURSIVE TrimLeft(_)
TrimLeft(s) == IF Len(s) > 0 /\ s[1] = " " THEN TrimLeft(Tail(s)) ELSE s

\* the first two fraction digits, in hundredths
FractionHundredths(fs) ==
    (IF Len(fs) >= 1 THEN DigitVal(fs[1]) * 10 ELSE 0)
    + (IF Len(fs) >= 2 THEN DigitVal(fs[2]) ELSE 0)

\* parseFloat(s): skips leading white space, reads an optional sign, digits,
\* an optional point and digits, and stops at the first other character;
\* NaN when no digit was read.  The value is in hundredths.
parseFloat(s) ==
    LET t    == TrimLeft(s)
        neg  == Len(t) > 0 /\ t[1] = "-"
        u    == IF Len(t) > 0 /\ t[1] \in {"-", "+"} THEN Tail(t) ELSE t
        ip   == TakeDigits(u)
        rest == SubSeq(u, Len(ip) + 1, Len(u))
        fp   == IF Len(rest) > 0 /\ rest[1] = "." THEN TakeDigits(Tail(rest)) ELSE <<>>
        mag  == DigitsValue(ip) * 100 + FractionHundredths(fp)
    IN  IF Len(ip) = 0 /\ Len(fp) = 0 THEN NaN
        ELSE Num(IF neg THEN 0 - mag ELSE mag)

\* parseInt(s, 10): as parseFloat without the fraction; the value is a whole number
parseInt(s) ==
    LET t   == TrimLeft(s)
        neg == Len(t) > 0 /\ t[1] = "-"
        u   == IF Len(t) > 0 /\ t[1] \in {"-", "+"} THEN Tail(t) ELSE t
        ip  == TakeDigits(u)
    IN  IF Len(ip) = 0 THEN NaN
        ELSE Num(IF neg THEN 0 - DigitsValue(ip) ELSE DigitsValue(ip))

\* Math.round(parseFloat(s || 0) * 100): the amount in pence
PenceOf(s) == IF Truthy(s) THEN parseFloat(s) ELSE Num(0)

---------------------------------------------------------------------------
(* The environment bindings.  A secret is set or not; the record store    *)
(* needs SUPABASE_URL and SUPABASE_SERVICE_KEY and the CRM needs           *)
(* GHL_API_KEY and GHL_LOCATION_ID, and the code tests each pair together, *)
(* so each pair is one flag (true when both are set).                      *)

Envs ==
    [RESEND_API_KEY : BOOLEAN, STRIPE_SECRET_KEY : BOOLEAN, CLICKUP_API_KEY : BOOLEAN,
     SUPABASE : BOOLEAN, GHL : BOOLEAN, STRIPE_WEBHOOK_SECRET : BOOLEAN]

\* the bindings the Pages Function reads
SubmitEnvs == {e \in Envs : ~e.STRIPE_WEBHOOK_SECRET}

---------------------------------------------------------------------------
(* Requests to POST /api/submit.                                           *)

\* all sequences over S of length at most n
RECURSIVE SeqsUpTo(_, _)
SeqsUpTo(S, n) ==
    IF n = 0 THEN {<<>>}
    ELSE LET shorter == SeqsUpTo(S, n - 1)
         IN  shorter \cup {Append(q, x) : q \in {t \in shorter : Len(t) = n - 1}, x \in S}

\* the text fields of a submission that the quote documents embed (submit.js 48,
\* 170, 387): data.name, email, phone, location, message, and of data.product the
\* name, type, colour, size, inscription, image and the names of the add-on items
UserFields ==
    {"name", "email", "phone", "location", "message", "productName", "productType",
     "productColour", "productSize", "inscription", "addonName", "image"}

\* every field holds the text "a"
PlainTexts == [f \in UserFields |-> <<"a">>]

\* product = {} (the default of the destructuring when data.product is undefined)
EmptyProduct == [price |-> <<>>, addonLineItems |-> <<>>, addons |-> 0, inscription |-> FALSE]

\* Products with a price from P and priced add-ons from A.  addonLineItems is the
\* list of the add-ons' price strings; addons is the length of the legacy list of
\* add-on names, which the code reads only when addonLineItems is empty.
Products(P, A) ==
    { [price |-> p, addonLineItems |-> a, addons |-> d, inscription |-> s] :
        p \in P, a \in SeqsUpTo(A, MaxAddons), d \in {0, MaxAddons}, s \in BOOLEAN }

\* the product configurations of the orchestration runs
MainProducts ==
    {pr \in Products({<<>>, <<"1", "0", "0">>, <<"a", "b", "c">>}, {<<"3", "0">>}) :
        pr.addons > 0 => pr.addonLineItems = <<>>}

NoRequest == [surface |-> "none"]

\* a request whose body JSON.parse rejects ("malformed"), the JSON text null, or an object
BadBodies ==
    { [surface |-> "submit", body |-> b, name |-> "absent", email |-> FALSE, message |-> FALSE,
       type |-> "enquiry", payment_preference |-> "deposit", product |-> "undefined",
       p |-> EmptyProduct, texts |-> PlainTexts, run |-> 1] : b \in {"malformed", "null"} }

\* a product an enquiry's body may carry although the form sends none: priced,
\* with an inscription
StrayProduct ==
    [price |-> <<"1", "0", "0">>, addonLineItems |-> <<>>, addons |-> 0, inscription |-> TRUE]

\* name: absent (falsy), a string, or another truthy JSON value (a number, an object)
Enquiries ==
    { [surface |-> "submit", body |-> "object", name |-> n, email |-> e, message |-> m,
       type |-> "enquiry", payment_preference |-> pp, product |-> k.product,
       p |-> k.p, texts |-> PlainTexts, run |-> 1] :
        n \in {"absent", "string", "other"}, e \in BOOLEAN, m \in BOOLEAN,
        pp \in {"deposit", "invoice_only"},
        k \in {[product |-> "undefined", p |-> EmptyProduct],
                [product |-> "object", p |-> StrayProduct]} }

QuotesOf(PS) ==
    { [surface |-> "submit", body |-> "object", name |-> "string", email |-> TRUE,
       message |-> m, type |-> "quote", payment_preference |-> pp, product |-> "object",
       p |-> pr, texts |-> PlainTexts, run |-> 1] :
        m \in {FALSE}, pp \in {"invoice_only", "deposit"}, pr \in PS }

\* quotes that fail validation, that have no product, a null product or a non-string name
OddQuotes ==
    { [surface |-> "submit", body |-> "object", name |-> n, email |-> e, message |-> FALSE,
       type |-> "quote", payment_preference |-> "invoice_only", product |-> k,
       p |-> EmptyProduct, texts |-> PlainTexts, run |-> 1] :
        n \in {"absent", "string", "other"}, e \in BOOLEAN, k \in {"undefined", "null"} }

SubmitRequests == BadBodies \cup Enquiries \cup OddQuotes \cup QuotesOf(MainProducts)

---------------------------------------------------------------------------
(* Responses.                                                              *)

NoResponse == [status |-> 0, body |-> [none |-> TRUE]]

\* jsonResponse(data, status)
jsonResponse(data, status) == [status |-> status, body |-> data]

\* an exception no handler catches: the runtime answers with its own error page
Uncaught == [status |-> 500, body |-> [exception |-> "TypeError"]]

\* one external call (a fetch) and how it ended
Call(api, op, to, amount, result) ==
    [api |-> api, op |-> op, to |-> to, amount |-> amount, result |-> result]

\* the run ends with response r
Return(r) == resp' = r /\ pc' = "done"

---------------------------------------------------------------------------
(* createStripeInvoice: the amounts (submit.js 750-754).                   *)

\* the add-ons the invoice is built from: addonLineItems when it is a non-empty array
addonItems(p) == p.addonLineItems

\* Math.round(parseFloat(product.price || 0) * 100)
totalPricePence(p) == PenceOf(p.price)

\* addonItems.reduce((sum, a) => sum + Math.round(parseFloat(a.price || 0) * 100), 0)
RECURSIVE SumPence(_)
SumPence(items) ==
    IF Len(items) = 0 THEN Num(0)
    ELSE Plus(SumPence(SubSeq(items, 1, Len(items) - 1)), PenceOf(items[Len(items)]))

addonTotalPence(p) == SumPence(addonItems(p))

\* Math.max(0, totalPricePence - addonTotalPence)
basePricePence(p) == Max0(Minus(totalPricePence(p), addonTotalPence(p)))

\* the add-on loop (762-767): the first index from j on whose add-on is posted
\* (addonPence > 0), or 0 when the loop posts nothing more
RECURSIVE NextPricedAddon(_, _)
NextPricedAddon(p, j) ==
    IF j > Len(addonItems(p)) THEN 0
    ELSE IF Gt0(PenceOf(addonItems(p)[j])) THEN j
    ELSE NextPricedAddon(p, j + 1)

\* the legacy loop (769-773) runs when there are no addonLineItems but addon names
LegacyLoop(p) == Len(addonItems(p)) = 0 /\ p.addons > 0

\* where createStripeInvoice goes once the items up to add-on j - 1 are posted:
\* the next await and the loop index there
AfterItems(p, j) ==
    IF NextPricedAddon(p, j) > 0 THEN [pc |-> "stripe_addon", i |-> NextPricedAddon(p, j)]
    ELSE IF LegacyLoop(p) THEN [pc |-> "stripe_legacy", i |-> 1]
    ELSE [pc |-> "stripe_invoice", i |-> 0]

\* the processor answers an invoice item whose amount is not an integer with an error
StripeItemResults(amount) == IF amount.nan THEN {"fail"} ELSE {"ok", "fail"}

\* the line items this run has added to the customer's pending invoice
RECURSIVE ItemAmounts(_)
ItemAmounts(cs) ==
    IF Len(cs) = 0 THEN <<>>
    ELSE LET c == cs[Len(cs)]
             before == ItemAmounts(SubSeq(cs, 1, Len(cs) - 1))
         IN  IF c.api = "stripe" /\ c.op = "invoiceitems" /\ c.result = "ok"
             THEN Append(before, c.amount) ELSE before

RECURSIVE SumNums(_)
SumNums(ns) ==
    IF Len(ns) = 0 THEN Num(0) ELSE Plus(SumNums(SubSeq(ns, 1, Len(ns) - 1)), ns[Len(ns)])

---------------------------------------------------------------------------
(* The payment processor as createStripeInvoice sees it: the customer      *)
(* objects that carry the requester's email, the invoice items pending on  *)
(* each, and the invoices.  An item remembers, for the checks only, the    *)
(* run that added it (by), and so does an invoice.  Whether creating an    *)
(* invoice collects the customer's pending items depends on the API        *)
(* version of the account (the code sends no Stripe-Version header and no  *)
(* pending_invoice_items_behavior), so a processor is of either kind       *)
(* (include).                                                              *)

NoProcessorCustomer(inc) == [include |-> inc, customers |-> <<>>, invoices |-> <<>>]

\* POST /v1/customers (742-747): a new customer object, whatever objects with the
\* same email exist
NewCustomer(st) == [st EXCEPT !.customers = Append(@, [pending |-> <<>>])]

\* the processor before a run: the email is unknown to it, or it knows one
\* customer with nothing pending
FreshProcessors(inc) == {NoProcessorCustomer(inc), NewCustomer(NoProcessorCustomer(inc))}

AnyFreshProcessor == UNION {FreshProcessors(inc) : inc \in BOOLEAN}

\* GET /v1/customers?email=...&limit=1 (734-738): data[0] is the customer created
\* last, 0 when there is none
FoundCustomer(st) == Len(st.customers)

\* POST /v1/invoiceitems with customer and no invoice (757-773): the item is
\* pending on the customer
AddPendingItem(st, cust, amount, run) ==
    [st EXCEPT !.customers[cust].pending = Append(@, [amount |-> amount, by |-> run])]

\* POST /v1/invoices (775-780): a draft invoice of the customer, with the items
\* pending on the customer when the processor collects them
NewInvoice(st, cust, run) ==
    IF st.include
    THEN [st EXCEPT !.invoices = Append(@, [customer |-> cust, by |-> run, finalized |-> FALSE,
                                            items |-> st.customers[cust].pending]),
                    !.customers[cust].pending = <<>>]
    ELSE [st EXCEPT !.invoices = Append(@, [customer |-> cust, by |-> run, finalized |-> FALSE,
                                            items |-> <<>>])]

\* POST /v1/invoices/<id>/finalize (782)
FinalizeInvoice(st, inv) ==
    IF inv \in 1..Len(st.invoices) THEN [st EXCEPT !.invoices[inv].finalized = TRUE] ELSE st

\* no other invocation
NoRun == [pc |-> "none"]

---------------------------------------------------------------------------
(* createStripeInvoice (submit.js 723-784), called from step 0 of          *)
(* handleQuoteRequest (53-63).  Any throw is caught at line 60: the run    *)
(* goes on to the business email with stripeInvoiceUrl still null.         *)

\* the catch of lines 60-62
StripeInvoiceFailed ==
    /\ pc' = "q_business"
    /\ i' = 0
    /\ UNCHANGED stripeInvoiceUrl

\* what the search for the customer can come to (734-738): a list with the
\* customer, an empty list, an answer that is an error object (the search does
\* not go through stripePost, so json.error is not looked at and data is
\* undefined), or a rejected fetch or a body that is not JSON, which throw
SearchResults(st) ==
    (IF FoundCustomer(st) > 0 THEN {"found"} ELSE {"none"}) \cup {"error", "fail"}

\* 734-737: look the customer up by email
StripeFindCustomer ==
    /\ pc = "stripe_search"
    /\ \E r \in SearchResults(stripe) :
        /\ calls' = Append(calls, Call("stripe", "customers.search", "-", Num(0), r))
        /\ customerId' = IF r = "found" THEN FoundCustomer(stripe) ELSE customerId
        /\ IF r = "found" THEN pc' = "stripe_update" /\ UNCHANGED <<i, stripeInvoiceUrl>>
           ELSE IF r \in {"none", "error"}
           THEN pc' = "stripe_create" /\ UNCHANGED <<i, stripeInvoiceUrl>>
           ELSE StripeInvoiceFailed
    /\ UNCHANGED <<stripe, parked, invoice, store, env, req, steps, resp, invoiceId, sbInvoiceId>>

\* 739-741: the customer exists: update name and phone
StripeUpdateCustomer ==
    /\ pc = "stripe_update"
    /\ \E r \in {"ok", "fail"} :
        /\ calls' = Append(calls, Call("stripe", "customers.update", "-", Num(0), r))
        /\ IF r = "ok" THEN pc' = "stripe_base" /\ UNCHANGED <<i, stripeInvoiceUrl>>
           ELSE StripeInvoiceFailed
    /\ UNCHANGED <<stripe, parked, customerId, invoice, store, env, req, steps, resp, invoiceId, sbInvoiceId>>

\* 742-748: no customer: create one
StripeCreateCustomer ==
    /\ pc = "stripe_create"
    /\ \E r \in {"ok", "fail"} :
        /\ calls' = Append(calls, Call("stripe", "customers.create", "-", Num(0), r))
        /\ stripe' = IF r = "ok" THEN NewCustomer(stripe) ELSE stripe
        /\ customerId' = IF r = "ok" THEN Len(stripe.customers) + 1 ELSE customerId
        /\ IF r = "ok" THEN pc' = "stripe_base" /\ UNCHANGED <<i, stripeInvoiceUrl>>
           ELSE StripeInvoiceFailed
    /\ UNCHANGED <<parked, invoice, store, env, req, steps, resp, invoiceId, sbInvoiceId>>

\* 750-760: the base line item, then on to the first add-on to post
StripeBaseItem ==
    /\ pc = "stripe_base"
    /\ \E r \in StripeItemResults(basePricePence(req.p)) :
        /\ calls' = Append(calls,
                Call("stripe", "invoiceitems", "base", basePricePence(req.p), r))
        /\ stripe' = IF r = "ok"
                     THEN AddPendingItem(stripe, customerId, basePricePence(req.p), req.run)
                     ELSE stripe
        /\ IF r = "ok"
           THEN /\ pc' = AfterItems(req.p, 1).pc
                /\ i' = AfterItems(req.p, 1).i
                /\ UNCHANGED stripeInvoiceUrl
           ELSE StripeInvoiceFailed
    /\ UNCHANGED <<parked, customerId, invoice, store, env, req, steps, resp, invoiceId, sbInvoiceId>>

\* 762-767: one line item per add-on with addonPence > 0
StripeAddonItem ==
    /\ pc = "stripe_addon"
    /\ \E r \in {"ok", "fail"} :
        /\ calls' = Append(calls,
                Call("stripe", "invoiceitems", "addon", PenceOf(addonItems(req.p)[i]), r))
        /\ stripe' = IF r = "ok"
                     THEN AddPendingItem(stripe, customerId, PenceOf(addonItems(req.p)[i]), req.run)
                     ELSE stripe
        /\ IF r = "ok"
           THEN /\ pc' = AfterItems(req.p, i + 1).pc
                /\ i' = AfterItems(req.p, i + 1).i
                /\ UNCHANGED stripeInvoiceUrl
           ELSE StripeInvoiceFailed
    /\ UNCHANGED <<parked, customerId, invoice, store, env, req, steps, resp, invoiceId, sbInvoiceId>>

\* 769-773: without addonLineItems, one zero-amount line item per add-on name
StripeLegacyItem ==
    /\ pc = "stripe_legacy"
    /\ \E r \in {"ok", "fail"} :
        /\ calls' = Append(calls, Call("stripe", "invoiceitems", "legacy", Num(0), r))
        /\ stripe' = IF r = "ok" THEN AddPendingItem(stripe, customerId, Num(0), req.run)
                     ELSE stripe
        /\ IF r = "ok"
           THEN /\ pc' = IF i < req.p.addons THEN "stripe_legacy" ELSE "stripe_invoice"
                /\ i' = IF i < req.p.addons THEN i + 1 ELSE 0
                /\ UNCHANGED stripeInvoiceUrl
           ELSE StripeInvoiceFailed
    /\ UNCHANGED <<parked, customerId, invoice, store, env, req, steps, resp, invoiceId, sbInvoiceId>>

\* mutant of StripeCreateInvoice: a failed creation is passed over and finalize
\* is called all the same
StripeCreateInvoiceGoesOn ==
    /\ pc = "stripe_invoice"
    /\ \E r \in {"ok", "fail"} :
        /\ calls' = Append(calls, Call("stripe", "invoices", "-", Num(0), r))
        /\ stripe' = IF r = "ok" THEN NewInvoice(stripe, customerId, req.run) ELSE stripe
        /\ invoice' = IF r = "ok" THEN Len(stripe.invoices) + 1 ELSE invoice
    /\ pc' = "stripe_finalize"
    /\ UNCHANGED <<parked, customerId, store, env, req, steps, resp, invoiceId, sbInvoiceId, i,
                   stripeInvoiceUrl>>

\* 775-780: create the invoice (send_invoice, 30 days, auto_advance false)
StripeCreateInvoice ==
    /\ pc = "stripe_invoice"
    /\ \E r \in {"ok", "fail"} :
        /\ calls' = Append(calls, Call("stripe", "invoices", "-", Num(0), r))
        /\ stripe' = IF r = "ok" THEN NewInvoice(stripe, customerId, req.run) ELSE stripe
        /\ invoice' = IF r = "ok" THEN Len(stripe.invoices) + 1 ELSE invoice
        /\ IF r = "ok" THEN pc' = "stripe_finalize" /\ UNCHANGED <<i, stripeInvoiceUrl>>
           ELSE StripeInvoiceFailed
    /\ UNCHANGED <<parked, customerId, store, env, req, steps, resp, invoiceId, sbInvoiceId>>

\* 782-783 and 57: finalize; the hosted URL, or null when the answer carries none
StripeFinalize ==
    /\ pc = "stripe_finalize"
    /\ \E r \in {"url", "nourl", "fail"} :
        /\ calls' = Append(calls, Call("stripe", "finalize", "-", Num(0), r))
        /\ stripe' = IF r = "fail" THEN stripe ELSE FinalizeInvoice(stripe, invoice)
        /\ IF r = "fail" THEN StripeInvoiceFailed
           ELSE /\ stripeInvoiceUrl' = IF r = "url" THEN "hosted_invoice_url" ELSE "null"
                /\ pc' = "q_business"
                /\ i' = 0
    /\ UNCHANGED <<parked, customerId, invoice, store, env, req, steps, resp, invoiceId,
                   sbInvoiceId>>

---------------------------------------------------------------------------
(* The record store as the handlers see it: the customers and orders rows  *)
(* that carry the requester's email.  Nothing in the code says whether the *)
(* customers table has a unique constraint on email, so a store is of      *)
(* either kind (unique).  An order row also remembers, for the checks      *)
(* only, which order the payment that marked it was made for (paid_for).   *)

EmptyStore(u) ==
    [unique |-> u, customers |-> <<>>, orders |-> <<>>, invoices |-> <<>>, inscriptions |-> <<>>]

FreshStores == {EmptyStore(u) : u \in BOOLEAN}

\* POST /rest/v1/customers (658-662): a plain insert, no on_conflict, no upsert
InsertCustomer(st) ==
    [st EXCEPT !.customers = Append(@, [email |-> "customer"])]

\* what the store can answer to the insert: a store with a unique email rejects a
\* second row; any store may be unavailable
CustomerInsertResults(st) ==
    IF st.unique /\ Len(st.customers) > 0 THEN {"conflict", "fail"} ELSE {"ok", "fail"}

\* POST /rest/v1/orders (663-674)
InsertOrder(st) ==
    [st EXCEPT !.orders = Append(@, [customer_email |-> "customer", deposit_paid |-> FALSE,
                                     deposit_amount |-> "null", paid_for |-> 0,
                                     order_type |-> IF req.type = "quote" THEN "quote"
                                                    ELSE "enquiry_type"])]

\* POST /rest/v1/invoices (677-680): a pending invoice for the order just written
InsertInvoice(st) ==
    [st EXCEPT !.invoices = Append(@, [order |-> Len(st.orders), status |-> "pending"])]

\* POST /rest/v1/inscriptions (686-689): the text alone, no order key
InsertInscription(st) ==
    [st EXCEPT !.inscriptions = Append(@, [inscription_text |-> "text"])]

\* mutant of MarkLatestOrder: the row of the order the payment was made for
MarkOriginOrder(st, origin) ==
    IF origin \notin 1..Len(st.orders) THEN st
    ELSE [st EXCEPT !.orders[origin] =
            [@ EXCEPT !.deposit_paid = TRUE, !.deposit_amount = "amount_received",
                      !.paid_for = origin]]

\* PATCH /rest/v1/orders?customer_email=eq.<custEmail>&order=created_at.desc&limit=1
\* (part_004 126-138): the most recent row with that email, if there is one
MarkLatestOrder(st, origin) ==
    IF Len(st.orders) = 0 THEN st
    ELSE [st EXCEPT !.orders[Len(st.orders)] =
            [@ EXCEPT !.deposit_paid = TRUE, !.deposit_amount = "amount_received",
                      !.paid_for = origin]]

---------------------------------------------------------------------------
(* The adapters (submit.js 648-718, 799-819): the calls one invocation     *)
(* makes.                                                                  *)

\* sendEmail (799-810): one POST to the email provider
sendEmail(to, r) == <<Call("resend", "emails", to, Num(0), r)>>

\* createClickUpTask (812-819): one POST, whether or not CLICKUP_API_KEY is set;
\* the task board answers a request without a token with an error
createClickUpTask(r) == <<Call("clickup", "task", "-", Num(0), r)>>
ClickUpResults == IF env.CLICKUP_API_KEY THEN {"ok", "fail"} ELSE {"fail"}

\* createGHLContact (698-718): nothing without the credentials; name.trim() throws
\* on a name that is not a string, before the POST
createGHLContact(r) ==
    IF ~env.GHL THEN <<>>
    ELSE IF req.name # "string" THEN <<>>
    ELSE <<Call("ghl", "contacts", "-", Num(0), r)>>

\* mutant of sbInscription: the product of the body reaches insertSupabaseRecord
\* whatever the type of the submission
sbInscriptionOfAnyType == req.p.inscription

\* product?.price and product?.inscription as insertSupabaseRecord sees them:
\* handleEnquiry passes no product
sbPrice == IF req.type = "quote" THEN req.p.price ELSE <<>>
sbInscription == req.type = "quote" /\ req.p.inscription

\* insertSupabaseRecord after the order row (675-692): the next insert, or the return
AfterOrder == IF req.type = "quote" /\ Truthy(sbPrice) THEN "sb_invoices"
              ELSE IF sbInscription THEN "sb_inscriptions"
              ELSE "sb_return"

\* insertSupabaseRecord after the invoice row (685-692)
AfterInvoice == IF sbInscription THEN "sb_inscriptions" ELSE "sb_return"

---------------------------------------------------------------------------
(* onRequestPost (submit.js 29-45) with the synchronous head of the        *)
(* handler it dispatches to (47-55, 120-122).                              *)

ConfigError == jsonResponse([ok |-> FALSE, error |-> "Server configuration error"], 500)
InvalidJson == jsonResponse([ok |-> FALSE, error |-> "Invalid JSON"], 400)
MissingFields == jsonResponse([ok |-> FALSE, error |-> "Missing required fields"], 400)
NotificationFailed ==
    jsonResponse([ok |-> FALSE, error |-> "Failed to send notification email"], 500)

\* payment_preference === 'invoice_only'
invoiceOnly(r) == r.payment_preference = "invoice_only"

\* mutant of QuoteHead: the customer confirmation is sent first, the business
\* notification never
QuoteHeadCustomerFirst(r) ==
    IF r.name # "string" \/ r.product = "null"
    THEN Return(Uncaught) /\ steps' = <<>>
    ELSE pc' = "q_customer" /\ steps' = <<>> /\ resp' = NoResponse

\* mutant of EnquiryHead: the message is not required
EnquiryHeadNoMessageCheck(r) ==
    pc' = "e_business" /\ steps' = <<>> /\ resp' = NoResponse

\* handleQuoteRequest 47-55: name.split and product.colour throw a TypeError on a
\* name that is not a string and on a null product; then step 0 when it applies
QuoteHead(r) ==
    IF r.name # "string" \/ r.product = "null"
    THEN Return(Uncaught) /\ steps' = <<>>
    ELSE IF invoiceOnly(r) /\ env.STRIPE_SECRET_KEY
    THEN pc' = "stripe_search" /\ steps' = <<"invoice">> /\ resp' = NoResponse
    ELSE pc' = "q_business" /\ steps' = <<>> /\ resp' = NoResponse

\* handleEnquiry 120-122
EnquiryHead(r) ==
    IF ~r.message
    THEN Return(MissingFields) /\ steps' = <<>>
    ELSE pc' = "e_business" /\ steps' = <<>> /\ resp' = NoResponse

\* mutant of Route: the body is parsed and validated before the credential is looked at
RouteParseFirst(r) ==
    IF r.body = "malformed" THEN Return(InvalidJson) /\ steps' = <<>>
    ELSE IF r.body = "null" THEN Return(Uncaught) /\ steps' = <<>>
    ELSE IF r.name = "absent" \/ ~r.email THEN Return(MissingFields) /\ steps' = <<>>
    ELSE IF ~env.RESEND_API_KEY THEN Return(ConfigError) /\ steps' = <<>>
    ELSE IF r.type = "quote" THEN QuoteHead(r)
    ELSE EnquiryHead(r)

\* onRequestPost 31-44: the checks in the order the code makes them.  data.name on
\* the JSON text null throws a TypeError nothing catches.
Route(r) ==
    IF ~env.RESEND_API_KEY THEN Return(ConfigError) /\ steps' = <<>>
    ELSE IF r.body = "malformed" THEN Return(InvalidJson) /\ steps' = <<>>
    ELSE IF r.body = "null" THEN Return(Uncaught) /\ steps' = <<>>
    ELSE IF r.name = "absent" \/ ~r.email THEN Return(MissingFields) /\ steps' = <<>>
    ELSE IF r.type = "quote" THEN QuoteHead(r)
    ELSE EnquiryHead(r)

\* onRequestPost 29-45: the runtime invokes the handler with a request
onRequestPost ==
    /\ pc = "idle"
    /\ \E r \in SubmitRequests :
        /\ req' = r
        /\ Route(r)
    /\ UNCHANGED <<stripe, parked, customerId, invoice, store, env, calls, stripeInvoiceUrl, invoiceId, sbInvoiceId, i>>

\* the response is out and the invocation is over; nothing of it is kept (the
\* handlers hold no state of their own between invocations).  The next request
\* is from a requester who has no rows in the record store yet, and whom the
\* payment processor does not know or knows as one customer.
InvocationEnds ==
    /\ pc = "done"
    /\ pc' = "idle"
    /\ req' = NoRequest
    /\ calls' = <<>>
    /\ steps' = <<>>
    /\ resp' = NoResponse
    /\ stripeInvoiceUrl' = "null"
    /\ invoiceId' = "null"
    /\ sbInvoiceId' = "null"
    /\ i' = 0
    /\ store' = EmptyStore(store.unique)
    /\ customerId' = 0
    /\ invoice' = 0
    /\ stripe' \in IF env.STRIPE_SECRET_KEY THEN FreshProcessors(stripe.include) ELSE {stripe}
    /\ UNCHANGED <<parked, env>>

---------------------------------------------------------------------------
(* handleQuoteRequest, steps 1-3 (submit.js 65-99).                        *)

\* x || 0 on a number: 0 for NaN and for 0
OrZero(x) == IF x.nan \/ x.v = 0 THEN Num(0) ELSE x

\* 171-175, 389-393: addonLineItems when it is a non-empty array, else the legacy
\* add-on names, each with price null
emailAddonItems(p) ==
    IF Len(p.addonLineItems) > 0 THEN p.addonLineItems ELSE [k \in 1..p.addons |-> <<>>]

\* addonItems.reduce((s, a) => s + (parseFloat(a.price) || 0), 0)
RECURSIVE emailAddonTotal(_)
emailAddonTotal(items) ==
    IF Len(items) = 0 THEN Num(0)
    ELSE Plus(emailAddonTotal(SubSeq(items, 1, Len(items) - 1)),
              OrZero(parseFloat(items[Len(items)])))

\* str.replace(/c/g, w): every occurrence of the character c becomes the text w
RECURSIVE ReplaceAll(_, _, _)
ReplaceAll(str, c, w) ==
    IF Len(str) = 0 THEN <<>>
    ELSE (IF Head(str) = c THEN w ELSE <<Head(str)>>) \o ReplaceAll(Tail(str), c, w)

AmpEntity  == <<"&", "a", "m", "p", ";">>
LtEntity   == <<"&", "l", "t", ";">>
GtEntity   == <<"&", "g", "t", ";">>
QuotEntity == <<"&", "q", "u", "o", "t", ";">>
AposEntity == <<"&", "#", "3", "9", ";">>

\* esc (793-797): the five replacements, & first
esc(str) ==
    ReplaceAll(ReplaceAll(ReplaceAll(ReplaceAll(ReplaceAll(
        str, "&", AmpEntity), "<", LtEntity), ">", GtEntity), "\"", QuotEntity), "'", AposEntity)

\* String.prototype.trim, and trimStart as a step of it
RECURSIVE TrimStart(_)
TrimStart(str) ==
    IF Len(str) > 0 /\ Head(str) = " " THEN TrimStart(Tail(str)) ELSE str

RECURSIVE Trim(_)
Trim(str) ==
    LET t == TrimStart(str)
    IN  IF Len(t) > 0 /\ t[Len(t)] = " " THEN Trim(SubSeq(t, 1, Len(t) - 1)) ELSE t

StartsWith(str, w) == Len(str) >= Len(w) /\ SubSeq(str, 1, Len(w)) = w

\* name.split(" ")[0] (50): the text before the first space
RECURSIVE FirstWord(_)
FirstWord(str) ==
    IF Len(str) = 0 \/ Head(str) = " " THEN <<>> ELSE <<Head(str)>> \o FirstWord(Tail(str))

\* x || d on a text
OrText(x, d) == IF Len(x) = 0 THEN d ELSE x

Dash == <<"-">>
Memorial == <<"M", "e", "m", "o", "r", "i", "a", "l">>
NotProvided == <<"N", "o", "t", " ", "p", "r", "o", "v", "i", "d", "e", "d">>
SiteOrigin ==
    <<"h", "t", "t", "p", "s", ":", "/", "/", "s", "e", "a", "r", "s", "m", "e", "l", "v",
      "i", "n", ".", "c", "o", ".", "u", "k">>

\* 182-183, 397-398: the image reference made absolute
imageUrl(image) ==
    LET rawImage == Trim(image)
    IN  IF StartsWith(rawImage, <<"h", "t", "t", "p">>) THEN rawImage
        ELSE IF Len(rawImage) > 0
        THEN SiteOrigin \o (IF StartsWith(rawImage, <<"/">>) THEN <<>> ELSE <<"/">>) \o rawImage
        ELSE <<>>

\* one place of a document where a text of the submission is embedded: the
\* field, the line of the template, the text the template was given there and
\* the characters it put into the document
Slot(field, line, given, embedded) ==
    [field |-> field, line |-> line, given |-> given, embedded |-> embedded]

\* ${esc(x)}
Escaped(field, line, x) == <<Slot(field, line, x, esc(x))>>

\* ${x}
Raw(field, line, x) == <<Slot(field, line, x, x)>>

When(cond, slots) == IF cond THEN slots ELSE <<>>

\* 278-289, 481-492: the name of each add-on item; an item without a price is
\* listed only when it has a name
RECURSIVE addonNameSlots(_, _, _)
addonNameSlots(items, t, line) ==
    IF Len(items) = 0 THEN <<>>
    ELSE When(Gt0(parseFloat(Head(items))) \/ Len(t.addonName) > 0,
              Escaped("addonName", line, t.addonName))
         \o addonNameSlots(Tail(items), t, line)

\* the places of quoteBusinessEmail (234-366), in the order of the template
businessSlots(r) ==
    LET t == [r.texts EXCEPT !.location = <<>>]   \* line 71 passes no location
        inscription == Trim(t.inscription)
    IN  Escaped("productName", 234, OrText(t.productName, Dash))
        \o When(Len(imageUrl(t.image)) > 0,
                 Raw("image", 240, imageUrl(t.image))
                 \o Escaped("productName", 240, OrText(t.productName, Memorial)))
        \o Escaped("productType", 249, OrText(t.productType, Dash))
        \o Escaped("productColour", 254, OrText(t.productColour, Dash))
        \o When(Len(t.productSize) > 0, Escaped("productSize", 259, t.productSize))
        \o Escaped("productName", 274, OrText(t.productName, Memorial))
        \o addonNameSlots(emailAddonItems(r.p), t, 280)
        \o When(Len(inscription) > 0, Escaped("inscription", 303, inscription))
        \o Escaped("name", 329, t.name)
        \o Escaped("email", 333, t.email)
        \o Escaped("email", 333, t.email)
        \o Escaped("phone", 337, OrText(t.phone, NotProvided))
        \o When(Len(t.location) > 0, Escaped("location", 341, t.location))
        \o When(Len(t.message) > 0, Escaped("message", 366, t.message))

\* the places of quoteCustomerEmail (432-490)
customerSlots(r) ==
    LET t == r.texts
    IN  Escaped("name", 432, FirstWord(t.name))
        \o Escaped("productName", 446, OrText(t.productName, Dash))
        \o When(Len(imageUrl(t.image)) > 0,
                 Raw("image", 451, imageUrl(t.image))
                 \o Escaped("productName", 451, OrText(t.productName, Memorial)))
        \o Escaped("productType", 460, OrText(t.productType, Dash))
        \o Escaped("productColour", 465, OrText(t.productColour, Dash))
        \o When(Len(t.productSize) > 0, Escaped("productSize", 470, t.productSize))
        \o Escaped("productName", 477, OrText(t.productName, Memorial))
        \o addonNameSlots(emailAddonItems(r.p), t, 483)

\* quoteBusinessEmail (170-179, 275, 295, 347): the amounts the document shows, in
\* hundredths, and the places where it embeds the submission's texts;
\* handleQuoteRequest passes it neither invoiceOnly nor stripeInvoiceUrl (line 71),
\* so it never carries the payment link
quoteBusinessEmail(r) ==
    LET totalPrice == OrZero(parseFloat(r.p.price))
        addonTotal == emailAddonTotal(emailAddonItems(r.p))
        basePrice  == Max0(Minus(totalPrice, addonTotal))
    IN  [totalPrice |-> totalPrice, addonTotal |-> addonTotal, basePrice |-> basePrice,
         link |-> "null", slots |-> businessSlots(r)]

\* mutant of quoteCustomerEmail: the document never carries the payment link
quoteCustomerEmailNoLink(r, url) ==
    LET totalPrice == OrZero(parseFloat(r.p.price))
        addonTotal == emailAddonTotal(emailAddonItems(r.p))
        basePrice  == Max0(Minus(totalPrice, addonTotal))
    IN  [totalPrice |-> totalPrice, addonTotal |-> addonTotal, basePrice |-> basePrice,
         link |-> "null", slots |-> customerSlots(r)]

\* mutant of quoteCustomerEmail: the base amount is not clamped at 0
quoteCustomerEmailNoClamp(r, url) ==
    LET totalPrice == OrZero(parseFloat(r.p.price))
        addonTotal == emailAddonTotal(emailAddonItems(r.p))
    IN  [totalPrice |-> totalPrice, addonTotal |-> addonTotal,
         basePrice |-> Minus(totalPrice, addonTotal),
         link |-> IF invoiceOnly(r) /\ url # "null" THEN url ELSE "null",
         slots |-> customerSlots(r)]

\* quoteCustomerEmail (387-395, 478, 497, 507-523): the amounts, the places where
\* it embeds the submission's texts, and the payment link when
\* invoiceOnly && stripeInvoiceUrl
quoteCustomerEmail(r, url) ==
    LET totalPrice == OrZero(parseFloat(r.p.price))
        addonTotal == emailAddonTotal(emailAddonItems(r.p))
        basePrice  == Max0(Minus(totalPrice, addonTotal))
    IN  [totalPrice |-> totalPrice, addonTotal |-> addonTotal, basePrice |-> basePrice,
         link |-> IF invoiceOnly(r) /\ url # "null" THEN url ELSE "null",
         slots |-> customerSlots(r)]

\* sendEmail with the html of a quote document
sendQuoteEmail(to, html, r) ==
    <<[api |-> "resend", op |-> "emails", to |-> to, amount |-> Num(0), result |-> r,
       html |-> html]>>

\* mutant of QuoteBusinessEmail: the catch logs and the run goes on
QuoteBusinessEmailNoHalt ==
    /\ pc = "q_business"
    /\ \E r \in {"ok", "fail"} : calls' = calls \o sendEmail("business", r)
    /\ pc' = "q_customer"
    /\ steps' = Append(steps, "business_email")
    /\ UNCHANGED <<stripe, parked, customerId, invoice, store, env, req, resp, stripeInvoiceUrl, invoiceId, sbInvoiceId, i>>

\* 65-76: the business notification; a failure ends the run with 500
QuoteBusinessEmail ==
    /\ pc = "q_business"
    /\ \E r \in {"ok", "fail"} :
        /\ calls' = calls \o sendQuoteEmail("business", quoteBusinessEmail(req), r)
        /\ IF r = "ok" THEN pc' = "q_customer" /\ UNCHANGED resp
           ELSE Return(NotificationFailed)
    /\ steps' = Append(steps, "business_email")
    /\ UNCHANGED <<stripe, parked, customerId, invoice, store, env, req, stripeInvoiceUrl, invoiceId, sbInvoiceId, i>>

\* mutant of QuoteCustomerEmail: a failure skips the steps that follow and the run
\* answers at once
QuoteCustomerEmailAborts ==
    /\ pc = "q_customer"
    /\ \E r \in {"ok", "fail"} :
        /\ calls' = calls \o sendEmail("customer", r)
        /\ IF r = "ok" THEN pc' = "q_clickup" /\ UNCHANGED resp
           ELSE Return(jsonResponse([ok |-> TRUE, invoiceId |-> "null",
                                     invoiceOnly |-> invoiceOnly(req),
                                     stripeInvoiceUrl |-> stripeInvoiceUrl], 200))
    /\ steps' = Append(steps, "customer_email")
    /\ UNCHANGED <<stripe, parked, customerId, invoice, store, env, req, stripeInvoiceUrl, invoiceId, sbInvoiceId, i>>

\* mutant of QuoteCustomerEmail: the task creation is started together with the
\* customer confirmation and the two are awaited as one
QuoteCustomerEmailWithTask ==
    /\ pc = "q_customer"
    /\ \E r \in {"ok", "fail"}, c \in ClickUpResults :
        calls' = calls \o sendQuoteEmail("customer", quoteCustomerEmail(req, stripeInvoiceUrl), r)
                       \o createClickUpTask(c)
    /\ pc' = "sb_customers"
    /\ steps' = steps \o <<"customer_email", "task">>
    /\ UNCHANGED <<stripe, parked, customerId, invoice, store, env, req, resp, stripeInvoiceUrl, invoiceId, sbInvoiceId, i>>

\* 78-88: the customer confirmation; a failure is logged
QuoteCustomerEmail ==
    /\ pc = "q_customer"
    /\ \E r \in {"ok", "fail"} :
        calls' = calls \o sendQuoteEmail("customer", quoteCustomerEmail(req, stripeInvoiceUrl), r)
    /\ pc' = "q_clickup"
    /\ steps' = Append(steps, "customer_email")
    /\ UNCHANGED <<stripe, parked, customerId, invoice, store, env, req, resp, stripeInvoiceUrl, invoiceId, sbInvoiceId, i>>

\* mutant of QuoteClickUp: a failed task creation fails the request
QuoteClickUpFatal ==
    /\ pc = "q_clickup"
    /\ \E r \in ClickUpResults :
        /\ calls' = calls \o createClickUpTask(r)
        /\ IF r = "ok" THEN pc' = "sb_customers" /\ UNCHANGED resp
           ELSE Return(jsonResponse([ok |-> FALSE, error |-> "Failed to create task"], 500))
    /\ steps' = Append(steps, "task")
    /\ UNCHANGED <<stripe, parked, customerId, invoice, store, env, req, stripeInvoiceUrl, invoiceId, sbInvoiceId, i>>

\* mutant of QuoteClickUp: a failed task creation is tried again
QuoteClickUpRetries ==
    /\ pc = "q_clickup"
    /\ \E r \in ClickUpResults :
        /\ calls' = calls \o createClickUpTask(r)
        /\ pc' = IF r = "ok" THEN "sb_customers" ELSE "q_clickup"
        /\ steps' = IF r = "ok" THEN Append(steps, "task") ELSE steps
    /\ UNCHANGED <<stripe, parked, customerId, invoice, store, env, req, resp, stripeInvoiceUrl, invoiceId, sbInvoiceId, i>>

\* 90-99: the task; a failure is logged
QuoteClickUp ==
    /\ pc = "q_clickup"
    /\ \E r \in ClickUpResults : calls' = calls \o createClickUpTask(r)
    /\ pc' = "sb_customers"
    /\ steps' = Append(steps, "task")
    /\ UNCHANGED <<stripe, parked, customerId, invoice, store, env, req, resp, stripeInvoiceUrl, invoiceId, sbInvoiceId, i>>

---------------------------------------------------------------------------
(* handleEnquiry (submit.js 123-152).                                      *)

\* 123-133
EnquiryBusinessEmail ==
    /\ pc = "e_business"
    /\ \E r \in {"ok", "fail"} :
        /\ calls' = calls \o sendEmail("business", r)
        /\ IF r = "ok" THEN pc' = "e_customer" /\ UNCHANGED resp
           ELSE Return(NotificationFailed)
    /\ steps' = Append(steps, "business_email")
    /\ UNCHANGED <<stripe, parked, customerId, invoice, store, env, req, stripeInvoiceUrl, invoiceId, sbInvoiceId, i>>

\* 134-143: enquiryCustomerEmail splits the name (594) before the send: on a name
\* that is not a string it throws inside the try and nothing is sent
EnquiryCustomerEmail ==
    /\ pc = "e_customer"
    /\ \E r \in {"ok", "fail"} :
        calls' = IF req.name = "string" THEN calls \o sendEmail("customer", r) ELSE calls
    /\ pc' = "e_clickup"
    /\ steps' = Append(steps, "customer_email")
    /\ UNCHANGED <<stripe, parked, customerId, invoice, store, env, req, resp, stripeInvoiceUrl, invoiceId, sbInvoiceId, i>>

\* 144-152
EnquiryClickUp ==
    /\ pc = "e_clickup"
    /\ \E r \in ClickUpResults : calls' = calls \o createClickUpTask(r)
    /\ pc' = "sb_customers"
    /\ steps' = Append(steps, "task")
    /\ UNCHANGED <<stripe, parked, customerId, invoice, store, env, req, resp, stripeInvoiceUrl, invoiceId, sbInvoiceId, i>>

---------------------------------------------------------------------------
(* insertSupabaseRecord (submit.js 648-693), called from step 4 of         *)
(* handleQuoteRequest (101-108) and from handleEnquiry (153-157).          *)

\* insertSupabaseRecord threw: the caller's catch (106, 155) logs; invoiceId stays null
SupabaseThrew == pc' = "ghl" /\ UNCHANGED invoiceId

\* insertSupabaseRecord returned: invoiceId = sbResult?.invoiceId || null (105)
SupabaseReturned(id) == pc' = "ghl" /\ invoiceId' = IF req.type = "quote" THEN id ELSE "null"

\* where insertSupabaseRecord goes after an insert: the next insert or the return
SupabaseGoes(next, id) == IF next = "sb_return" THEN SupabaseReturned(id)
                          ELSE pc' = next /\ UNCHANGED invoiceId

\* 649-662: nothing without the credentials; name.trim() throws on a name that is
\* not a string; else the customer row
SupabaseCustomers ==
    /\ pc = "sb_customers"
    /\ steps' = Append(steps, "records")
    /\ IF ~env.SUPABASE THEN SupabaseReturned("null") /\ UNCHANGED <<calls, store>>
       ELSE IF req.name # "string" THEN SupabaseThrew /\ UNCHANGED <<calls, store>>
       ELSE \E r \in CustomerInsertResults(store) :
            /\ calls' = Append(calls, Call("supabase", "customers", "-", Num(0), r))
            /\ IF r = "ok"
               THEN pc' = "sb_orders" /\ store' = InsertCustomer(store) /\ UNCHANGED invoiceId
               ELSE SupabaseThrew /\ UNCHANGED store
    /\ UNCHANGED <<stripe, parked, customerId, invoice, env, req, resp, stripeInvoiceUrl, sbInvoiceId, i>>

\* mutant of SupabaseOrders: a failed order insert takes the customer row back
SupabaseOrdersRollsBack ==
    /\ pc = "sb_orders"
    /\ \E r \in {"ok", "fail"} :
        /\ calls' = Append(calls, Call("supabase", "orders", "-", Num(0), r))
        /\ IF r = "ok" THEN SupabaseGoes(AfterOrder, "null") /\ store' = InsertOrder(store)
           ELSE /\ SupabaseThrew
                /\ store' = [store EXCEPT !.customers = SubSeq(@, 1, Len(@) - 1)]
    /\ UNCHANGED <<stripe, parked, customerId, invoice, env, req, steps, resp, stripeInvoiceUrl, sbInvoiceId, i>>

\* 663-674: the order row
SupabaseOrders ==
    /\ pc = "sb_orders"
    /\ \E r \in {"ok", "fail"} :
        /\ calls' = Append(calls, Call("supabase", "orders", "-", Num(0), r))
        /\ IF r = "ok" THEN SupabaseGoes(AfterOrder, "null") /\ store' = InsertOrder(store)
           ELSE SupabaseThrew /\ UNCHANGED store
    /\ UNCHANGED <<stripe, parked, customerId, invoice, env, req, steps, resp, stripeInvoiceUrl, sbInvoiceId, i>>

\* what the invoice insert can come to: the row is written ("ok"), the store
\* answers with an error status ("fail"), or the fetch itself is rejected
\* ("reject"), which throws at line 678 as at any other await
InvoiceInsertResults == {"ok", "fail", "reject"}

\* mutant of SupabaseInvoices: an error status throws, as for the other tables
SupabaseInvoicesThrows ==
    /\ pc = "sb_invoices"
    /\ \E r \in InvoiceInsertResults :
        /\ calls' = Append(calls, Call("supabase", "invoices", "pending", parseFloat(sbPrice), r))
        /\ sbInvoiceId' = IF r = "ok" THEN "invoice_row_id" ELSE "null"
        /\ store' = IF r = "ok" THEN InsertInvoice(store) ELSE store
        /\ IF r # "ok" THEN SupabaseThrew
           ELSE SupabaseGoes(AfterInvoice, "invoice_row_id")
    /\ UNCHANGED <<stripe, parked, customerId, invoice, env, req, steps, resp, stripeInvoiceUrl, i>>

\* 675-684: the invoice row, amount parseFloat(product.price), status pending;
\* an error status is logged and the function goes on; a rejected fetch throws
SupabaseInvoices ==
    /\ pc = "sb_invoices"
    /\ \E r \in InvoiceInsertResults :
        /\ calls' = Append(calls, Call("supabase", "invoices", "pending", parseFloat(sbPrice), r))
        /\ sbInvoiceId' = IF r = "ok" THEN "invoice_row_id" ELSE "null"
        /\ store' = IF r = "ok" THEN InsertInvoice(store) ELSE store
        /\ IF r = "reject" THEN SupabaseThrew
           ELSE SupabaseGoes(AfterInvoice, IF r = "ok" THEN "invoice_row_id" ELSE "null")
    /\ UNCHANGED <<stripe, parked, customerId, invoice, env, req, steps, resp, stripeInvoiceUrl, i>>

\* 685-692: the inscription row; a failure throws
SupabaseInscriptions ==
    /\ pc = "sb_inscriptions"
    /\ \E r \in {"ok", "fail"} :
        /\ calls' = Append(calls, Call("supabase", "inscriptions", "-", Num(0), r))
        /\ store' = IF r = "ok" THEN InsertInscription(store) ELSE store
        /\ IF r = "ok" THEN SupabaseReturned(sbInvoiceId) ELSE SupabaseThrew
    /\ UNCHANGED <<stripe, parked, customerId, invoice, env, req, steps, resp, stripeInvoiceUrl, sbInvoiceId, i>>

---------------------------------------------------------------------------
(* The CRM step and the response (submit.js 110-117, 158-163).             *)

QuoteOk ==
    jsonResponse([ok |-> TRUE, invoiceId |-> invoiceId, invoiceOnly |-> invoiceOnly(req),
                  stripeInvoiceUrl |-> stripeInvoiceUrl], 200)

EnquiryOk == jsonResponse([ok |-> TRUE], 200)

\* 110-117
QuoteGHL ==
    /\ pc = "ghl" /\ req.type = "quote"
    /\ \E r \in {"ok", "fail"} : calls' = calls \o createGHLContact(r)
    /\ steps' = Append(steps, "crm")
    /\ Return(QuoteOk)
    /\ UNCHANGED <<stripe, parked, customerId, invoice, store, env, req, stripeInvoiceUrl, invoiceId, sbInvoiceId, i>>

\* 158-163
EnquiryGHL ==
    /\ pc = "ghl" /\ req.type # "quote"
    /\ \E r \in {"ok", "fail"} : calls' = calls \o createGHLContact(r)
    /\ steps' = Append(steps, "crm")
    /\ Return(EnquiryOk)
    /\ UNCHANGED <<stripe, parked, customerId, invoice, store, env, req, stripeInvoiceUrl, invoiceId, sbInvoiceId, i>>

---------------------------------------------------------------------------
(* The Pages Function: any bindings, one invocation after another.         *)

Init ==
    /\ env \in SubmitEnvs
    /\ stripe \in IF env.STRIPE_SECRET_KEY THEN AnyFreshProcessor ELSE {NoProcessorCustomer(TRUE)}
    /\ parked = NoRun
    /\ customerId = 0
    /\ invoice = 0
    /\ store \in FreshStores
    /\ req = NoRequest
    /\ pc = "idle"
    /\ calls = <<>>
    /\ steps = <<>>
    /\ resp = NoResponse
    /\ stripeInvoiceUrl = "null"
    /\ invoiceId = "null"
    /\ sbInvoiceId = "null"
    /\ i = 0

createStripeInvoice ==
    \/ StripeFindCustomer
    \/ StripeUpdateCustomer
    \/ StripeCreateCustomer
    \/ StripeBaseItem
    \/ StripeAddonItem
    \/ StripeLegacyItem
    \/ StripeCreateInvoice
    \/ StripeFinalize

insertSupabaseRecord ==
    \/ SupabaseCustomers
    \/ SupabaseOrders
    \/ SupabaseInvoices
    \/ SupabaseInscriptions

handleQuoteRequest ==
    \/ QuoteBusinessEmail
    \/ QuoteCustomerEmail
    \/ QuoteClickUp
    \/ QuoteGHL

handleEnquiry ==
    \/ EnquiryBusinessEmail
    \/ EnquiryCustomerEmail
    \/ EnquiryClickUp
    \/ EnquiryGHL

Next ==
    \/ onRequestPost
    \/ InvocationEnds
    \/ createStripeInvoice
    \/ handleQuoteRequest
    \/ handleEnquiry
    \/ insertSupabaseRecord

Spec == Init /\ [][Next]_vars

---------------------------------------------------------------------------
(* createStripeInvoice on its own: any product with prices that are        *)
(* absent, unparsable, zero, negative, whole or with pence.                *)

InvoicePrices ==
    { <<>>, <<"a", "b", "c">>, <<"1", "0", "0">>, <<"9", "9", ".", "9", "9">>,
      <<"-", "2", "0">> }

InvoiceAddonPrices ==
    { <<>>, <<"a", "b", "c">>, <<"0">>, <<"-", "5">>, <<"3", "0">>, <<"1", "5", "0">>,
      <<"0", ".", "0", "1">> }

InvoiceProducts ==
    {pr \in Products(InvoicePrices, InvoiceAddonPrices) : ~pr.inscription}

\* handleQuoteRequest has reached step 0 (53-59) with an invoice_only quote
InitInvoice ==
    /\ stripe \in AnyFreshProcessor
    /\ parked = NoRun
    /\ customerId = 0
    /\ invoice = 0
    /\ store = EmptyStore(FALSE)
    /\ env \in {e \in SubmitEnvs : e.RESEND_API_KEY /\ e.STRIPE_SECRET_KEY /\ e.CLICKUP_API_KEY
                                   /\ e.SUPABASE /\ e.GHL}
    /\ req \in {q \in QuotesOf(InvoiceProducts) : invoiceOnly(q)}
    /\ pc = "stripe_search"
    /\ calls = <<>>
    /\ steps = <<"invoice">>
    /\ resp = NoResponse
    /\ stripeInvoiceUrl = "null"
    /\ invoiceId = "null"
    /\ sbInvoiceId = "null"
    /\ i = 0

SpecInvoice == InitInvoice /\ [][createStripeInvoice]_vars

---------------------------------------------------------------------------
(* Step 0 and the two emails of handleQuoteRequest (53-88) for any product *)
(* of the invoice runs, and the price and add-on of the worked example.    *)

EmailPrices == InvoicePrices \cup { <<"1", "0", "0", "0">> }

EmailProducts ==
    {pr \in Products(EmailPrices, InvoiceAddonPrices) : ~pr.inscription}

\* handleQuoteRequest has read the body (47-51) of a quote with either preference
InitQuoteEmails ==
    /\ stripe \in FreshProcessors(TRUE)
    /\ parked = NoRun
    /\ customerId = 0
    /\ invoice = 0
    /\ store = EmptyStore(FALSE)
    /\ env \in {e \in SubmitEnvs : e.RESEND_API_KEY /\ e.STRIPE_SECRET_KEY /\ e.CLICKUP_API_KEY
                                   /\ e.SUPABASE /\ e.GHL}
    /\ req \in QuotesOf(EmailProducts)
    /\ pc = IF invoiceOnly(req) THEN "stripe_search" ELSE "q_business"
    /\ calls = <<>>
    /\ steps = IF invoiceOnly(req) THEN <<"invoice">> ELSE <<>>
    /\ resp = NoResponse
    /\ stripeInvoiceUrl = "null"
    /\ invoiceId = "null"
    /\ sbInvoiceId = "null"
    /\ i = 0

NextQuoteEmails ==
    \/ createStripeInvoice
    \/ QuoteBusinessEmail
    \/ QuoteCustomerEmail

SpecQuoteEmails == InitQuoteEmails /\ [][NextQuoteEmails]_vars

---------------------------------------------------------------------------
(* The Worker's POST /stripe-webhook (part_004 99-161).                    *)

\* Math.abs(Math.floor(Date.now() / 1000) - parseInt(timestamp, 10)) > 300
ToleranceSeconds == 300

\* the secret bound to STRIPE_WEBHOOK_SECRET, and a secret a forger may try
WebhookSecret == "whsec_configured"
GuessedSecret == "whsec_guessed"

\* HMAC-SHA256 as an ideal MAC: the signature names the key and the signed text,
\* so two signatures are equal exactly when key and text are
Hmac(secret, text) == [key |-> secret, text |-> text]

\* a v1 value that is no HMAC of anything
GarbageSig == Hmac("none", <<>>)

\* `${timestamp}.${rawBody}`
signedPayload(timestamp, rawBody) == timestamp \o <<".">> \o rawBody

\* one comma-separated part of the stripe-signature header: "t=<t>" or "v1=<sig>"
TPart(t) == [k |-> "t", t |-> t, sig |-> GarbageSig]
V1Part(sig) == [k |-> "v1", t |-> <<>>, sig |-> sig]

\* parts.find(p => p.startsWith(key + "=")): the index of the first such part, or 0
RECURSIVE FindPart(_, _, _)
FindPart(parts, key, from) ==
    IF from > Len(parts) THEN 0
    ELSE IF parts[from].k = key THEN from
    ELSE FindPart(parts, key, from + 1)

Abs(n) == IF n < 0 THEN 0 - n ELSE n

\* Math.abs(now - parseInt(timestamp, 10)) > 300: false when the timestamp is NaN
Stale(now, timestamp) ==
    LET t == parseInt(timestamp)
    IN  ~t.nan /\ Abs(now - t.v) > ToleranceSeconds

\* verifyStripeWebhookSig (part_004 735-752); sigHeader is the list of the header's
\* comma-separated parts, empty when the header is missing or empty
verifyStripeWebhookSig(rawBody, sigHeader, secret, now) ==
    LET tIdx  == FindPart(sigHeader, "t", 1)
        v1Idx == FindPart(sigHeader, "v1", 1)
    IN  IF Len(sigHeader) = 0 \/ secret = "" THEN FALSE
        ELSE IF tIdx = 0 \/ v1Idx = 0 THEN FALSE
        ELSE IF Stale(now, sigHeader[tIdx].t) THEN FALSE
        ELSE Hmac(secret, signedPayload(sigHeader[tIdx].t, rawBody)) = sigHeader[v1Idx].sig

\* The bodies.  The processor sends (and signs) payment_intent.succeeded events,
\* whose metadata may or may not carry customer_email, and events of other types;
\* anybody can send a body of their own: a payment_intent.succeeded event, an
\* event without data, the JSON text null, a text that is no JSON.
ProcessorBodies == { <<"E_succeeded">>, <<"E_succeeded_no_email">>, <<"E_other">> }
ForeignBodies   == { <<"X_succeeded">>, <<"X_no_data">>, <<"X_null">>, <<"X_malformed">> }

\* JSON.parse(rawBody) and what the handler reads of the event
EventOf(rawBody) ==
    CASE rawBody = <<"E_succeeded">>          -> [json |-> "object", type |-> "payment_intent.succeeded", data |-> TRUE, custEmail |-> TRUE]
      [] rawBody = <<"E_succeeded_no_email">> -> [json |-> "object", type |-> "payment_intent.succeeded", data |-> TRUE, custEmail |-> FALSE]
      [] rawBody = <<"E_other">>              -> [json |-> "object", type |-> "charge.refunded", data |-> TRUE, custEmail |-> FALSE]
      [] rawBody = <<"X_succeeded">>          -> [json |-> "object", type |-> "payment_intent.succeeded", data |-> TRUE, custEmail |-> TRUE]
      [] rawBody = <<"X_no_data">>            -> [json |-> "object", type |-> "payment_intent.succeeded", data |-> FALSE, custEmail |-> FALSE]
      [] rawBody = <<"X_null">>               -> [json |-> "null", type |-> "", data |-> FALSE, custEmail |-> FALSE]
      [] OTHER                                -> [json |-> "malformed", type |-> "", data |-> FALSE, custEmail |-> FALSE]

\* the timestamp the processor signed its deliveries with, and the timestamps a
\* header may carry: that one, a later one, text that is no number, nothing
ProcessorTimestamp == <<"1", "0", "0", "0">>
HeaderTimestamps == { ProcessorTimestamp, <<"1", "3", "0", "1">>, <<"a", "b", "c">>, <<>> }

\* the clock (seconds) when the delivery arrives: at the signed time, at the
\* edges of the window around it, and just outside
Clocks == {699, 700, 1000, 1300, 1301}

\* The v1 values a sender can put in a header for body b and timestamp t: a
\* signature made with the secret (whoever holds it signs the processor's bodies,
\* with whatever text stands in the timestamp's place), a signature under any
\* other key over the sender's own text, or text that is no signature.  Nobody
\* signs a foreign body with the secret.
SigsFor(t, b) ==
    { Hmac(WebhookSecret, signedPayload(ts, pb)) : ts \in HeaderTimestamps, pb \in ProcessorBodies }
    \cup { Hmac(GuessedSecret, signedPayload(t, b)), GarbageSig }

HeadersFor(b) ==
    { <<>> }
    \cup { <<TPart(t)>> : t \in HeaderTimestamps }
    \cup { <<V1Part(sg)>> : sg \in SigsFor(<<>>, b) }
    \cup UNION { { <<TPart(t), V1Part(sg)>> : sg \in SigsFor(t, b) } : t \in HeaderTimestamps }

WebhookRequests ==
    UNION { { [surface |-> "webhook", rawBody |-> b, sigHeader |-> h, now |-> n, origin |-> 0] :
                h \in HeadersFor(b), n \in Clocks } :
            b \in ProcessorBodies \cup ForeignBodies }

\* the bindings the webhook route reads
WebhookEnvs == {e \in Envs : ~e.STRIPE_SECRET_KEY /\ ~e.CLICKUP_API_KEY /\ ~e.GHL}

Received == [status |-> 200, body |-> [received |-> TRUE]]
InvalidSignature == [status |-> 400, body |-> [error |-> "Invalid signature"]]
WebhookInvalidJson == [status |-> 400, body |-> [error |-> "Invalid JSON"]]

\* mutant of SignatureRejected: the check runs whether or not a secret is configured
SignatureRejectedWithoutSecret(r) ==
    ~verifyStripeWebhookSig(r.rawBody, r.sigHeader,
                            IF env.STRIPE_WEBHOOK_SECRET THEN WebhookSecret ELSE "", r.now)

\* 104-112: the check runs only when a secret is configured
SignatureRejected(r) ==
    /\ env.STRIPE_WEBHOOK_SECRET
    /\ ~verifyStripeWebhookSig(r.rawBody, r.sigHeader, WebhookSecret, r.now)

\* 119-123: event.type on null, event.data.object without data: a TypeError nothing catches
EventThrows(ev) ==
    \/ ev.json = "null"
    \/ ev.type = "payment_intent.succeeded" /\ ~ev.data

\* 142-157: after the order update, the emails when RESEND_API_KEY and custEmail are set
AfterOrderUpdate(ev) ==
    IF env.RESEND_API_KEY /\ ev.custEmail THEN pc' = "wh_customer" /\ resp' = NoResponse
    ELSE Return(Received)

\* 104-124: verification, JSON.parse and the dispatch on the type
webhookDispatch(r) ==
    LET ev == EventOf(r.rawBody)
    IN  IF SignatureRejected(r) THEN Return(InvalidSignature)
        ELSE IF ev.json = "malformed" THEN Return(WebhookInvalidJson)
        ELSE IF EventThrows(ev) THEN Return(Uncaught)
        ELSE IF ev.type # "payment_intent.succeeded" THEN Return(Received)
        ELSE IF env.SUPABASE /\ ev.custEmail THEN pc' = "wh_order" /\ resp' = NoResponse
        ELSE AfterOrderUpdate(ev)

\* 99-124: a delivery arrives
stripeWebhook ==
    /\ pc = "idle"
    /\ \E r \in WebhookRequests :
        /\ req' = r
        /\ webhookDispatch(r)
    /\ UNCHANGED <<stripe, parked, customerId, invoice, store, env, calls, steps, stripeInvoiceUrl, invoiceId, sbInvoiceId, i>>

\* 124-140: PATCH the latest order of the customer; the answer is not looked at and
\* a rejected fetch is caught
WebhookOrderUpdate ==
    /\ pc = "wh_order"
    /\ \E r \in {"ok", "fail"} :
        /\ calls' = Append(calls, Call("supabase", "orders.patch", "-", Num(0), r))
        /\ store' = IF r = "ok" THEN MarkLatestOrder(store, req.origin) ELSE store
    /\ AfterOrderUpdate(EventOf(req.rawBody))
    /\ UNCHANGED <<stripe, parked, customerId, invoice, env, req, steps, stripeInvoiceUrl, invoiceId, sbInvoiceId, i>>

\* mutant of WebhookCustomerEmail: a failed send is answered with a server error
WebhookCustomerEmailFatal ==
    /\ pc = "wh_customer"
    /\ \E r \in {"ok", "fail"} :
        /\ calls' = calls \o sendEmail("customer", r)
        /\ IF r = "ok" THEN pc' = "wh_business" /\ UNCHANGED resp
           ELSE Return([status |-> 500, body |-> [error |-> "Deposit email failed"]])
    /\ UNCHANGED <<stripe, parked, customerId, invoice, store, env, req, steps, stripeInvoiceUrl, invoiceId, sbInvoiceId, i>>

\* mutant of WebhookCustomerEmail: each email in a try of its own
WebhookCustomerEmailOnItsOwn ==
    /\ pc = "wh_customer"
    /\ \E r \in {"ok", "fail"} : calls' = calls \o sendEmail("customer", r)
    /\ pc' = "wh_business"
    /\ UNCHANGED <<stripe, parked, customerId, invoice, store, env, req, steps, stripeInvoiceUrl, invoiceId, sbInvoiceId, i, resp>>

\* 142-149: the customer's deposit confirmation; a failure skips the rest of the try
WebhookCustomerEmail ==
    /\ pc = "wh_customer"
    /\ \E r \in {"ok", "fail"} :
        /\ calls' = calls \o sendEmail("customer", r)
        /\ IF r = "ok" THEN pc' = "wh_business" /\ UNCHANGED resp ELSE Return(Received)
    /\ UNCHANGED <<stripe, parked, customerId, invoice, store, env, req, steps, stripeInvoiceUrl, invoiceId, sbInvoiceId, i>>

\* 150-160: the business's deposit notification, then the acknowledgement
WebhookBusinessEmail ==
    /\ pc = "wh_business"
    /\ \E r \in {"ok", "fail"} : calls' = calls \o sendEmail("business", r)
    /\ Return(Received)
    /\ UNCHANGED <<stripe, parked, customerId, invoice, store, env, req, steps, stripeInvoiceUrl, invoiceId, sbInvoiceId, i>>

InitWebhook ==
    /\ stripe = NoProcessorCustomer(TRUE)
    /\ parked = NoRun
    /\ customerId = 0
    /\ invoice = 0
    /\ store = EmptyStore(FALSE)
    /\ env \in WebhookEnvs
    /\ req = NoRequest
    /\ pc = "idle"
    /\ calls = <<>>
    /\ steps = <<>>
    /\ resp = NoResponse
    /\ stripeInvoiceUrl = "null"
    /\ invoiceId = "null"
    /\ sbInvoiceId = "null"
    /\ i = 0

NextWebhook ==
    \/ stripeWebhook
    \/ InvocationEnds
    \/ WebhookOrderUpdate
    \/ WebhookCustomerEmail
    \/ WebhookBusinessEmail

SpecWebhook == InitWebhook /\ [][NextWebhook]_vars

---------------------------------------------------------------------------
(* Two invoice_only Quote runs for the same email at once.  The runtime    *)
(* runs one invocation at a time and may turn to another one whenever the  *)
(* running one is suspended at an await, that is between any two steps.    *)
(* Each invocation has its own locals; the processor is the same.          *)

\* the locals of the running invocation
Locals ==
    [req |-> req, pc |-> pc, calls |-> calls, steps |-> steps, resp |-> resp,
     stripeInvoiceUrl |-> stripeInvoiceUrl, invoiceId |-> invoiceId,
     sbInvoiceId |-> sbInvoiceId, i |-> i, customerId |-> customerId, invoice |-> invoice]

\* the runtime turns to the other invocation, which has not finished its issuance
Switch ==
    /\ parked.pc \notin {"none", "q_business"}
    /\ parked' = Locals
    /\ req' = parked.req
    /\ pc' = parked.pc
    /\ calls' = parked.calls
    /\ steps' = parked.steps
    /\ resp' = parked.resp
    /\ stripeInvoiceUrl' = parked.stripeInvoiceUrl
    /\ invoiceId' = parked.invoiceId
    /\ sbInvoiceId' = parked.sbInvoiceId
    /\ i' = parked.i
    /\ customerId' = parked.customerId
    /\ invoice' = parked.invoice
    /\ UNCHANGED <<stripe, store, env>>

\* the product of run n: priced, with one priced add-on (run 1) or with add-on
\* names only (run 2)
ConcurrentProduct(n) ==
    [price |-> <<"1", "0", "0">>,
     addonLineItems |-> IF n = 1 THEN << <<"3", "0">> >> ELSE <<>>,
     addons |-> IF n = 1 THEN 0 ELSE MaxAddons,
     inscription |-> FALSE]

\* the quote of run n
ConcurrentQuote(n) ==
    CHOOSE q \in {[x EXCEPT !.run = n] : x \in QuotesOf({ConcurrentProduct(n)})} : invoiceOnly(q)

InitConcurrent ==
    /\ env \in {e \in Envs : /\ e.RESEND_API_KEY /\ e.STRIPE_SECRET_KEY /\ ~e.SUPABASE
                              /\ ~e.CLICKUP_API_KEY /\ ~e.GHL /\ ~e.STRIPE_WEBHOOK_SECRET}
    /\ stripe \in AnyFreshProcessor
    /\ store = EmptyStore(FALSE)
    /\ req = ConcurrentQuote(1)
    /\ pc = "stripe_search"
    /\ calls = <<>>
    /\ steps = <<"invoice">>
    /\ resp = NoResponse
    /\ stripeInvoiceUrl = "null"
    /\ invoiceId = "null"
    /\ sbInvoiceId = "null"
    /\ i = 0
    /\ customerId = 0
    /\ invoice = 0
    /\ parked = [req |-> ConcurrentQuote(2), pc |-> "stripe_search", calls |-> <<>>,
                 steps |-> <<"invoice">>, resp |-> NoResponse, stripeInvoiceUrl |-> "null",
                 invoiceId |-> "null", sbInvoiceId |-> "null", i |-> 0, customerId |-> 0,
                 invoice |-> 0]

NextConcurrent == createStripeInvoice \/ Switch

SpecConcurrent == InitConcurrent /\ [][NextConcurrent]_vars

---------------------------------------------------------------------------
(* Two invoice_only Quote runs for the same email one after the other: the *)
(* first has ended its issuance (with an invoice or in the catch of line   *)
(* 60) before the second is submitted.  The processor keeps what the first *)
(* left; parked keeps the first run's locals as they were at its end.      *)

\* the customer submits again after the first run's issuance is over
LaterSubmission ==
    /\ pc = "q_business"
    /\ parked.pc = "none"
    /\ parked' = Locals
    /\ req' = ConcurrentQuote(2)
    /\ pc' = "stripe_search"
    /\ calls' = <<>>
    /\ steps' = <<"invoice">>
    /\ i' = 0
    /\ customerId' = 0
    /\ invoice' = 0
    /\ stripeInvoiceUrl' = "null"
    /\ UNCHANGED <<stripe, store, env, resp, invoiceId, sbInvoiceId>>

InitReissue ==
    /\ env \in {e \in Envs : /\ e.RESEND_API_KEY /\ e.STRIPE_SECRET_KEY /\ ~e.SUPABASE
                              /\ ~e.CLICKUP_API_KEY /\ ~e.GHL /\ ~e.STRIPE_WEBHOOK_SECRET}
    /\ stripe \in AnyFreshProcessor
    /\ store = EmptyStore(FALSE)
    /\ req = ConcurrentQuote(1)
    /\ pc = "stripe_search"
    /\ calls = <<>>
    /\ steps = <<"invoice">>
    /\ resp = NoResponse
    /\ stripeInvoiceUrl = "null"
    /\ invoiceId = "null"
    /\ sbInvoiceId = "null"
    /\ i = 0
    /\ customerId = 0
    /\ invoice = 0
    /\ parked = NoRun

NextReissue ==
    \/ StripeFindCustomer
    \/ StripeUpdateCustomer
    \/ StripeCreateCustomer
    \/ StripeBaseItem
    \/ StripeAddonItem
    \/ StripeLegacyItem
    \/ StripeCreateInvoice
    \/ StripeFinalize
    \/ LaterSubmission

SpecReissue == InitReissue /\ [][NextReissue]_vars

---------------------------------------------------------------------------
(* The processor delivers one payment_intent.succeeded event several times *)
(* to /stripe-webhook (part_004 99-161).  The log of calls and the list of *)
(* deliveries (steps) are kept over the deliveries, so that what the       *)
(* handler did for the event in all can be counted.                        *)

MaxDeliveries == 3

\* the event as the processor signed it, arriving when the clock shows now
SignedEvent(now) ==
    [surface |-> "webhook", rawBody |-> <<"E_succeeded">>,
     sigHeader |-> <<TPart(ProcessorTimestamp),
                     V1Part(Hmac(WebhookSecret,
                                 signedPayload(ProcessorTimestamp, <<"E_succeeded">>)))>>,
     now |-> now, origin |-> 1]

\* the record store with the customer's one order
StoreWithOrder ==
    [EmptyStore(FALSE) EXCEPT
        !.customers = <<[email |-> "customer"]>>,
        !.orders = <<[customer_email |-> "customer", deposit_paid |-> FALSE,
                      deposit_amount |-> "null", paid_for |-> 0, order_type |-> "quote"]>>]

\* mutant of Redelivery: the handler remembers the event's id and only
\* acknowledges a delivery of an event it has processed before
RedeliveryDeduplicated ==
    /\ pc = "idle"
    /\ Len(steps) < MaxDeliveries
    /\ \E n \in Clocks :
        /\ req' = SignedEvent(n)
        /\ IF ~SignatureRejected(SignedEvent(n)) /\ \E k \in 1..Len(steps) : steps[k] = "processed"
           THEN Return(Received)
           ELSE webhookDispatch(SignedEvent(n))
        /\ steps' = Append(steps, IF SignatureRejected(SignedEvent(n)) THEN "rejected"
                                  ELSE "processed")
    /\ UNCHANGED <<stripe, parked, customerId, invoice, store, env, calls, stripeInvoiceUrl,
                   invoiceId, sbInvoiceId, i>>

\* 99-124: the event is delivered, for the first time or again; the list of
\* deliveries notes whether the signature check (104-112) let it through
Redelivery ==
    /\ pc = "idle"
    /\ Len(steps) < MaxDeliveries
    /\ \E n \in Clocks :
        /\ req' = SignedEvent(n)
        /\ webhookDispatch(SignedEvent(n))
        /\ steps' = Append(steps, IF SignatureRejected(SignedEvent(n)) THEN "rejected"
                                  ELSE "processed")
    /\ UNCHANGED <<stripe, parked, customerId, invoice, store, env, calls, stripeInvoiceUrl,
                   invoiceId, sbInvoiceId, i>>

\* 160: the delivery is answered; the handler keeps nothing of it
DeliveryAnswered ==
    /\ pc = "done"
    /\ pc' = "idle"
    /\ req' = NoRequest
    /\ resp' = NoResponse
    /\ UNCHANGED <<stripe, parked, customerId, invoice, store, env, calls, steps,
                   stripeInvoiceUrl, invoiceId, sbInvoiceId, i>>

InitRedelivery ==
    /\ env \in {e \in Envs : /\ e.RESEND_API_KEY /\ e.SUPABASE /\ ~e.STRIPE_SECRET_KEY
                              /\ ~e.CLICKUP_API_KEY /\ ~e.GHL}
    /\ stripe = NoProcessorCustomer(TRUE)
    /\ parked = NoRun
    /\ customerId = 0
    /\ invoice = 0
    /\ store = StoreWithOrder
    /\ req = NoRequest
    /\ pc = "idle"
    /\ calls = <<>>
    /\ steps = <<>>
    /\ resp = NoResponse
    /\ stripeInvoiceUrl = "null"
    /\ invoiceId = "null"
    /\ sbInvoiceId = "null"
    /\ i = 0

NextRedelivery ==
    \/ Redelivery
    \/ DeliveryAnswered
    \/ WebhookOrderUpdate
    \/ WebhookCustomerEmail
    \/ WebhookBusinessEmail

SpecRedelivery == InitRedelivery /\ [][NextRedelivery]_vars

---------------------------------------------------------------------------
(* The quote documents over the texts of a submission: one field at a time *)
(* holds any short text over the characters that esc replaces, a space and *)
(* a letter; the other fields hold the text "a".                           *)

MaxTextLen == 2

MarkupChars == {"a", " ", "&", "<", ">", "\"", "'"}

Texts == SeqsUpTo(MarkupChars, MaxTextLen)

\* name and email are required (38-39): the empty text does not pass
TextsOf(f) == IF f \in {"name", "email"} THEN Texts \ {<<>>} ELSE Texts

\* a deposit quote for a priced product with one priced add-on item and one without
\* a price
MarkupProduct ==
    [price |-> <<"1", "0", "0">>, addonLineItems |-> << <<"3", "0">>, <<>> >>, addons |-> 0,
     inscription |-> TRUE]

MarkupQuotes ==
    { [q EXCEPT !.texts[f] = t, !.p.inscription = (f # "inscription" \/ Len(t) > 0)] :
        q \in {x \in QuotesOf({MarkupProduct}) : ~invoiceOnly(x)},
        f \in UserFields, t \in Texts }

InitMarkup ==
    /\ stripe = NoProcessorCustomer(TRUE)
    /\ parked = NoRun
    /\ customerId = 0
    /\ invoice = 0
    /\ store = EmptyStore(FALSE)
    /\ env \in {e \in Envs : /\ e.RESEND_API_KEY /\ ~e.STRIPE_SECRET_KEY /\ ~e.SUPABASE
                              /\ ~e.CLICKUP_API_KEY /\ ~e.GHL /\ ~e.STRIPE_WEBHOOK_SECRET}
    /\ req \in {q \in MarkupQuotes : \A f \in UserFields : q.texts[f] \in TextsOf(f)}
    /\ pc = "q_business"
    /\ calls = <<>>
    /\ steps = <<>>
    /\ resp = NoResponse
    /\ stripeInvoiceUrl = "null"
    /\ invoiceId = "null"
    /\ sbInvoiceId = "null"
    /\ i = 0

NextMarkup == QuoteBusinessEmail \/ QuoteCustomerEmail

SpecMarkup == InitMarkup /\ [][NextMarkup]_vars

---------------------------------------------------------------------------
(* One customer over time: quote submissions with the same email to        *)
(* /api/submit, and the payment processor's deliveries to /stripe-webhook  *)
(* for the deposits that customer pays.  Both handlers work on the same    *)
(* record store, whose rows outlive the invocations.                       *)

\* the customers rows one email may collect before the runs stop
MaxSubmissions == 2

\* the customer's quotes: a priced product, deposit preference, with or without
\* an inscription
StoreQuotes ==
    {q \in QuotesOf(MainProducts) :
        /\ q.payment_preference = "deposit"
        /\ q.p.price = <<"1", "0", "0">>
        /\ q.p.addonLineItems = <<>>
        /\ q.p.addons = 0}

\* the processor's deliveries for a deposit paid against one of the customer's
\* orders (part_004 63-96: the payment carries the customer's email in its
\* metadata and nothing that names the order)
DepositEvents(st) ==
    { [w EXCEPT !.origin = k] :
        w \in {x \in WebhookRequests :
                 /\ x.rawBody = <<"E_succeeded">>
                 /\ x.now = 1000
                 /\ verifyStripeWebhookSig(x.rawBody, x.sigHeader, WebhookSecret, x.now)},
        k \in 1..Len(st.orders) }

StoreEnvs ==
    {e \in Envs : /\ e.RESEND_API_KEY /\ e.SUPABASE /\ e.STRIPE_WEBHOOK_SECRET
                  /\ ~e.STRIPE_SECRET_KEY /\ ~e.CLICKUP_API_KEY /\ ~e.GHL}

\* onRequestPost, for the next quote of the same customer
RepeatSubmission ==
    /\ pc = "idle"
    /\ Len(store.customers) < MaxSubmissions
    /\ \E r \in StoreQuotes :
        /\ req' = r
        /\ Route(r)
    /\ UNCHANGED <<stripe, parked, customerId, invoice, store, env, calls, stripeInvoiceUrl, invoiceId, sbInvoiceId, i>>

\* /stripe-webhook, for a deposit the customer has paid
DepositPaid ==
    /\ pc = "idle"
    /\ \E r \in DepositEvents(store) :
        /\ req' = r
        /\ webhookDispatch(r)
    /\ UNCHANGED <<stripe, parked, customerId, invoice, store, env, calls, steps, stripeInvoiceUrl, invoiceId, sbInvoiceId, i>>

\* the invocation is over; the rows it wrote stay in the record store
InvocationEndsRowsStay ==
    /\ pc = "done"
    /\ pc' = "idle"
    /\ req' = NoRequest
    /\ calls' = <<>>
    /\ steps' = <<>>
    /\ resp' = NoResponse
    /\ stripeInvoiceUrl' = "null"
    /\ invoiceId' = "null"
    /\ sbInvoiceId' = "null"
    /\ i' = 0
    /\ customerId' = 0
    /\ invoice' = 0
    /\ UNCHANGED <<stripe, parked, store, env>>

InitStore ==
    /\ stripe = NoProcessorCustomer(TRUE)
    /\ parked = NoRun
    /\ customerId = 0
    /\ invoice = 0
    /\ store \in FreshStores
    /\ env \in StoreEnvs
    /\ req = NoRequest
    /\ pc = "idle"
    /\ calls = <<>>
    /\ steps = <<>>
    /\ resp = NoResponse
    /\ stripeInvoiceUrl = "null"
    /\ invoiceId = "null"
    /\ sbInvoiceId = "null"
    /\ i = 0

NextStore ==
    \/ RepeatSubmission
    \/ DepositPaid
    \/ InvocationEndsRowsStay
    \/ QuoteBusinessEmail
    \/ QuoteCustomerEmail
    \/ QuoteClickUp
    \/ SupabaseCustomers
    \/ SupabaseOrders
    \/ SupabaseInvoices
    \/ SupabaseInscriptions
    \/ QuoteGHL
    \/ WebhookOrderUpdate
    \/ WebhookCustomerEmail
    \/ WebhookBusinessEmail

SpecStore == InitStore /\ [][NextStore]_vars

---------------------------------------------------------------------------
(* What a run has done, read from its log.                                 *)

\* the calls of the log that satisfy Test
CallsTo(api, to) == {k \in 1..Len(calls) : calls[k].api = api /\ calls[k].to = to}
CallsOf(api) == {k \in 1..Len(calls) : calls[k].api = api}

BusinessEmailCalls == CallsTo("resend", "business")
CustomerEmailCalls == CallsTo("resend", "customer")

\* the business-notification send of this run failed / succeeded
BusinessEmailFailed == \E k \in BusinessEmailCalls : calls[k].result = "fail"
BusinessEmailSent == \E k \in BusinessEmailCalls : calls[k].result = "ok"

\* call k belongs to a non-critical step other than the invoice issuance
BestEffortCall(k) ==
    \/ calls[k].api \in {"clickup", "supabase", "ghl"}
    \/ calls[k].api = "resend" /\ calls[k].to = "customer"

\* call k belongs to a non-critical step
NonCriticalCall(k) == BestEffortCall(k) \/ calls[k].api = "stripe"

\* step s was entered in this run
Entered(s) == \E k \in 1..Len(steps) : steps[k] = s

OnSubmit == req.surface = "submit"
OnWebhook == req.surface = "webhook"

---------------------------------------------------------------------------
(* C1.  Halt invariant: in a Quote run and in an Enquiry run, once the     *)
(* business-notification send has failed the run is over with              *)
(* 500 {ok:false, error:"Failed to send notification email"}, and no       *)
(* customer-confirmation email, task-board call, record-store call or CRM  *)
(* call was made and none of these steps was entered.                      *)
C1_HaltOnBusinessEmailFailure ==
    (OnSubmit /\ BusinessEmailFailed) =>
        /\ pc = "done"
        /\ resp = NotificationFailed
        /\ \A k \in 1..Len(calls) : ~BestEffortCall(k)
        /\ ~Entered("customer_email") /\ ~Entered("task")
        /\ ~Entered("records") /\ ~Entered("crm")

\* a Quote run with every integration configured whose business email failed
\* after the invoice issuer had been called
C1_Witness ==
    /\ OnSubmit /\ req.type = "quote" /\ BusinessEmailFailed
    /\ env.SUPABASE /\ env.GHL /\ env.CLICKUP_API_KEY
    /\ CallsOf("stripe") # {}
    /\ resp.status = 500

---------------------------------------------------------------------------
(* C2.  Best-effort failures are invisible to the caller: every run whose  *)
(* business-notification send succeeded ends with 200 and ok:true,         *)
(* whatever the outcome of the invoice issuance, the customer email, the   *)
(* task, the record-store writes and the CRM upsert.                       *)
C2_BestEffortInvisible ==
    (OnSubmit /\ pc = "done" /\ BusinessEmailSent) =>
        /\ resp.status = 200
        /\ resp.body.ok = TRUE

\* a finished Quote run in which the invoice issuance, the customer email, the
\* task, a record-store write and the CRM upsert all failed
C2_Witness ==
    /\ OnSubmit /\ pc = "done" /\ BusinessEmailSent /\ req.type = "quote"
    /\ \E k \in CallsOf("stripe") : calls[k].result = "fail"
    /\ \E k \in CustomerEmailCalls : calls[k].result = "fail"
    /\ \E k \in CallsOf("clickup") : calls[k].result = "fail"
    /\ \E k \in CallsOf("supabase") : calls[k].result = "fail"
    /\ \E k \in CallsOf("ghl") : calls[k].result = "fail"
    /\ resp.status = 200

---------------------------------------------------------------------------
(* C3.  A best-effort failure never aborts the remaining best-effort       *)
(* steps: a finished run whose business-notification send succeeded has    *)
(* entered the customer-confirmation, task, record-store and CRM steps, in *)
(* that order, and each has placed its call whenever it is configured and  *)
(* the name is a string (a name that is no string makes the step itself    *)
(* throw before its call).                                                 *)
BestEffortSteps == <<"business_email", "customer_email", "task", "records", "crm">>

C3_BestEffortStepsAllAttempted ==
    (OnSubmit /\ pc = "done" /\ BusinessEmailSent) =>
        /\ Len(steps) >= Len(BestEffortSteps)
        /\ SubSeq(steps, Len(steps) - Len(BestEffortSteps) + 1, Len(steps)) = BestEffortSteps
        /\ CallsOf("clickup") # {}
        /\ req.name = "string" => CustomerEmailCalls # {}
        /\ (req.name = "string" /\ env.SUPABASE) => CallsOf("supabase") # {}
        /\ (req.name = "string" /\ env.GHL) => CallsOf("ghl") # {}

\* a finished run in which the customer email, the task and the record store
\* failed and the CRM call was still made
C3_Witness ==
    /\ OnSubmit /\ pc = "done" /\ BusinessEmailSent
    /\ \E k \in CustomerEmailCalls : calls[k].result = "fail"
    /\ \E k \in CallsOf("clickup") : calls[k].result = "fail"
    /\ \E k \in CallsOf("supabase") : calls[k].result = "fail"
    /\ CallsOf("ghl") # {}

---------------------------------------------------------------------------
(* C4.  As claimed: the business-notification email is attempted before    *)
(* any non-critical step makes an external call, so a run that ends in the *)
(* critical failure has made no non-critical call.  The invoice issuance   *)
(* (step 0) is non-critical and runs first.                                *)
C4_BusinessEmailBeforeAnyNonCritical ==
    OnSubmit =>
        /\ \A k \in 1..Len(calls) :
              NonCriticalCall(k) => \E j \in BusinessEmailCalls : j < k
        /\ resp = NotificationFailed => \A k \in 1..Len(calls) : ~NonCriticalCall(k)

(* C4, amended.  The business-notification email is attempted before any   *)
(* non-critical step other than the invoice issuance makes an external     *)
(* call, and every invoice-issuer call precedes it; a run that ends in the *)
(* critical failure has made no customer-email, task-board, record-store   *)
(* or CRM call (it may have issued an invoice).                            *)
C4_BusinessEmailBeforeBestEffort ==
    OnSubmit =>
        /\ \A k \in 1..Len(calls) :
              BestEffortCall(k) => \E j \in BusinessEmailCalls : j < k
        /\ \A k \in CallsOf("stripe") : \A j \in BusinessEmailCalls : k < j
        /\ resp = NotificationFailed => \A k \in 1..Len(calls) : ~BestEffortCall(k)

\* a run that ended in the critical failure after its invoice was finalized
C4_Witness ==
    /\ OnSubmit /\ resp = NotificationFailed
    /\ \E k \in CallsOf("stripe") : calls[k].op = "finalize" /\ calls[k].result = "url"

---------------------------------------------------------------------------
(* C5.  Client errors have no side effects.  With the email credential     *)
(* set, a body that is not JSON gets 400 "Invalid JSON"; a JSON object     *)
(* missing name or email, or an Enquiry missing message, gets              *)
(* 400 "Missing required fields"; no adapter is invoked in either case,    *)
(* also for a Quote with payment preference invoice_only.                  *)
MissingRequired(r) ==
    r.body = "object" /\ (r.name = "absent" \/ ~r.email \/ (r.type # "quote" /\ ~r.message))

C5_ClientErrorsNoSideEffects ==
    (OnSubmit /\ env.RESEND_API_KEY) =>
        /\ req.body = "malformed" => (resp = InvalidJson /\ calls = <<>> /\ steps = <<>>)
        /\ MissingRequired(req) => (resp = MissingFields /\ calls = <<>> /\ steps = <<>>)

\* an invoice_only Quote without an email, answered 400, the issuer configured
C5_Witness ==
    /\ OnSubmit /\ env.RESEND_API_KEY /\ env.STRIPE_SECRET_KEY
    /\ req.body = "object" /\ req.type = "quote" /\ invoiceOnly(req)
    /\ req.name = "string" /\ ~req.email
    /\ resp = MissingFields

---------------------------------------------------------------------------
(* C6.  With RESEND_API_KEY not set every POST is answered                 *)
(* 500 "Server configuration error" before the body is looked at: the      *)
(* answer is the same for a valid body, a malformed body and a body        *)
(* missing required fields, and no adapter is invoked.                     *)
C6_ConfigErrorFirst ==
    (OnSubmit /\ ~env.RESEND_API_KEY) =>
        /\ pc = "done"
        /\ resp = ConfigError
        /\ calls = <<>>
        /\ steps = <<>>

\* a malformed body answered with the configuration error
C6_Witness ==
    /\ OnSubmit /\ ~env.RESEND_API_KEY /\ req.body = "malformed"
    /\ resp = ConfigError

---------------------------------------------------------------------------
---------------------------------------------------------------------------
\* the header carries a signature that is the HMAC of "{timestamp}.{rawBody}" under
\* the configured secret, and the timestamp is a time within 300 seconds of now
Authentic(r) ==
    \E a, b \in 1..Len(r.sigHeader) :
        /\ r.sigHeader[a].k = "t"
        /\ r.sigHeader[b].k = "v1"
        /\ r.sigHeader[b].sig = Hmac(WebhookSecret, signedPayload(r.sigHeader[a].t, r.rawBody))
        /\ ~parseInt(r.sigHeader[a].t).nan
        /\ Abs(r.now - parseInt(r.sigHeader[a].t).v) <= ToleranceSeconds

(* C8.  With STRIPE_WEBHOOK_SECRET configured, a callback is processed     *)
(* only if the signature in the header is the HMAC-SHA256 of               *)
(* "{timestamp}.{rawBody}" under the secret and the timestamp is within    *)
(* 300 seconds of the current time; any other callback is rejected with a  *)
(* client error and no order update and no email happen for it.            *)
C8_ProcessedOnlyIfAuthentic ==
    (OnWebhook /\ env.STRIPE_WEBHOOK_SECRET /\ ~Authentic(req)) =>
        /\ pc = "done"
        /\ resp = InvalidSignature
        /\ calls = <<>>

---------------------------------------------------------------------------
(* C9.  With no STRIPE_WEBHOOK_SECRET configured there is no authenticity  *)
(* check: no callback is answered "Invalid signature", and a               *)
(* payment_intent.succeeded callback with any signature header, or none,   *)
(* is acknowledged and triggers the order update (record store configured) *)
(* and the deposit emails (email credential set), the business's after     *)
(* the customer's has been sent.                                           *)
C9_NoSecretNoAuthenticityCheck ==
    (OnWebhook /\ ~env.STRIPE_WEBHOOK_SECRET /\ pc = "done") =>
        LET ev == EventOf(req.rawBody)
        IN  /\ resp # InvalidSignature
            /\ (ev.json = "object" /\ ev.type = "payment_intent.succeeded" /\ ev.custEmail) =>
                /\ resp = Received
                /\ env.SUPABASE => CallsOf("supabase") # {}
                /\ env.RESEND_API_KEY => CustomerEmailCalls # {}
                /\ (\E k \in CustomerEmailCalls : calls[k].result = "ok")
                       => BusinessEmailCalls # {}

\* a payment_intent.succeeded body nobody signed, sent without a signature header,
\* has updated the order and sent both deposit emails
C9_Witness ==
    /\ OnWebhook /\ ~env.STRIPE_WEBHOOK_SECRET /\ pc = "done"
    /\ req.rawBody = <<"X_succeeded">> /\ req.sigHeader = <<>>
    /\ resp = Received
    /\ \E k \in CallsOf("supabase") : calls[k].op = "orders.patch"
    /\ CustomerEmailCalls # {} /\ BusinessEmailCalls # {}

---------------------------------------------------------------------------
\* grandTotal in pence: parse(product.price) or 0, never negative
grandTotalPence(p) ==
    LET x == parseFloat(p.price)
    IN  IF x.nan \/ x.v < 0 THEN Num(0) ELSE x

\* the invoice of this run has been finalised
InvoiceIssued ==
    \E k \in CallsOf("stripe") : calls[k].op = "finalize" /\ calls[k].result # "fail"

(* C10.  For every Quote submission for which an invoice is issued, the    *)
(* sum of the line-item amounts added to the invoice (pence) equals        *)
(* round(grandTotal * 100), for every product price and every list of      *)
(* add-on line items.                                                      *)
C10_InvoiceSumEqualsGrandTotal ==
    InvoiceIssued => SumNums(ItemAmounts(calls)) = grandTotalPence(req.p)

---------------------------------------------------------------------------
(* C11.  For every product configuration the grand total the code computes *)
(* is the parsed product.price, 0 when the price is missing or unparsable, *)
(* and never negative, in both email renderers and in the pence            *)
(* computation of the invoice issuer.                                      *)
C11_GrandTotalParsedOrZero ==
    /\ \A k \in CallsOf("resend") : calls[k].html.totalPrice = grandTotalPence(req.p)
    /\ (\E k \in CallsOf("stripe") : calls[k].to = "base")
           => totalPricePence(req.p) = grandTotalPence(req.p)

---------------------------------------------------------------------------
\* the sum of the add-on prices that parse; the others count 0
RECURSIVE SumParseable(_)
SumParseable(items) ==
    IF Len(items) = 0 THEN 0
    ELSE SumParseable(SubSeq(items, 1, Len(items) - 1))
         + (IF parseFloat(items[Len(items)]).nan THEN 0 ELSE parseFloat(items[Len(items)]).v)

(* C12.  The business email and the customer email compute the same        *)
(* breakdown: addonTotal is the sum of the parseable add-on prices,        *)
(* baseAmount = max(0, grandTotal - addonTotal), and baseAmount +          *)
(* addonTotal = grandTotal whenever addonTotal <= grandTotal; price 1000   *)
(* with one add-on of 150 gives base 850, add-ons 150, total 1000.         *)
C12_EmailsSameBreakdown ==
    /\ \A k \in CallsOf("resend") :
        LET d == calls[k].html
        IN  /\ d.addonTotal = Num(SumParseable(req.p.addonLineItems))
            /\ d.basePrice = Max0(Minus(d.totalPrice, d.addonTotal))
            /\ d.addonTotal.v <= d.totalPrice.v
                   => d.basePrice.v + d.addonTotal.v = d.totalPrice.v
            /\ (req.p.price = <<"1", "0", "0", "0">> /\ req.p.addonLineItems = << <<"1", "5", "0">> >>)
                   => /\ d.basePrice = Num(85000)
                      /\ d.addonTotal = Num(15000)
                      /\ d.totalPrice = Num(100000)
    /\ \A j, k \in CallsOf("resend") :
        /\ calls[j].html.totalPrice = calls[k].html.totalPrice
        /\ calls[j].html.addonTotal = calls[k].html.addonTotal
        /\ calls[j].html.basePrice = calls[k].html.basePrice

\* both emails of a quote whose add-ons cost more than the product: base 0
C12_Witness ==
    /\ BusinessEmailCalls # {} /\ CustomerEmailCalls # {}
    /\ req.p.price = <<"1", "0", "0">> /\ req.p.addonLineItems = << <<"1", "5", "0">> >>
    /\ \A k \in CallsOf("resend") : calls[k].html.basePrice = Num(0)

---------------------------------------------------------------------------
\* the invoice rows the record store was sent in this run
InvoiceRowCalls == {k \in CallsOf("supabase") : calls[k].op = "invoices"}

(* C13.  The record store receives an invoice row only for a Quote whose   *)
(* product.price parses to a number; the row carries the grand total as    *)
(* amount and status "pending".  No invoice row is written for an Enquiry  *)
(* or for a Quote whose price is absent or unparsable.                     *)
C13_InvoiceRowOnlyForParseablePrice ==
    \A k \in InvoiceRowCalls :
        /\ req.type = "quote"
        /\ ~parseFloat(req.p.price).nan
        /\ calls[k].amount = parseFloat(req.p.price)
        /\ calls[k].to = "pending"

---------------------------------------------------------------------------
\* the record-store step of this run created an invoice row
InvoiceRowCreated == \E k \in InvoiceRowCalls : calls[k].result = "ok"

(* C14.  Whenever the record-store step of a Quote run creates an invoice  *)
(* row, the invoiceId of the run's response is the identifier of that row, *)
(* also when the inscription insert after it fails; invoiceId is null only *)
(* when no invoice row was created.                                        *)
C14_InvoiceIdOfCreatedRow ==
    (OnSubmit /\ pc = "done" /\ resp.status = 200 /\ req.type = "quote") =>
        resp.body.invoiceId = IF InvoiceRowCreated THEN "invoice_row_id" ELSE "null"

---------------------------------------------------------------------------
(* C15.  For each non-critical integration (invoice issuer, task board,    *)
(* record store, CRM), when its credential is absent the step makes no     *)
(* external call and counts as a success: the run continues and the        *)
(* response is unchanged.                                                  *)
C15_AbsentCredentialNoCall ==
    OnSubmit =>
        /\ ~env.STRIPE_SECRET_KEY => CallsOf("stripe") = {}
        /\ ~env.CLICKUP_API_KEY => CallsOf("clickup") = {}
        /\ ~env.SUPABASE => CallsOf("supabase") = {}
        /\ ~env.GHL => CallsOf("ghl") = {}
        /\ (pc = "done" /\ BusinessEmailSent) => resp.status = 200 /\ resp.body.ok

---------------------------------------------------------------------------
\* the invoice of this run was issued through finalize, which answered with a URL
IssuedWithUrl ==
    /\ invoiceOnly(req) /\ env.STRIPE_SECRET_KEY
    /\ \E k \in CallsOf("stripe") : calls[k].op = "finalize" /\ calls[k].result = "url"

(* C16.  In a Quote run the hosted invoice URL of the response is non-null *)
(* exactly when the payment preference is invoice_only, the invoice issuer *)
(* is configured and issuance succeeded through finalize with a URL; the   *)
(* customer email of that run then embeds a payment link with that URL.    *)
(* In every other case no payment link is embedded and the run continues   *)
(* with URL null.                                                          *)
C16_HostedUrlAndLink ==
    (OnSubmit /\ req.type = "quote") =>
        /\ (pc = "done" /\ resp.status = 200) =>
               resp.body.stripeInvoiceUrl = IF IssuedWithUrl THEN "hosted_invoice_url" ELSE "null"
        /\ \A k \in CustomerEmailCalls :
               calls[k].html.link = IF IssuedWithUrl THEN "hosted_invoice_url" ELSE "null"
        /\ \A k \in BusinessEmailCalls : calls[k].html.link = "null"
        /\ (pc = "done" /\ BusinessEmailSent) => resp.status = 200

\* a finished run whose response and customer email carry the hosted URL
C16_Witness ==
    /\ OnSubmit /\ req.type = "quote" /\ pc = "done" /\ resp.status = 200
    /\ resp.body.stripeInvoiceUrl = "hosted_invoice_url"
    /\ \E k \in CustomerEmailCalls : calls[k].html.link = resp.body.stripeInvoiceUrl

---------------------------------------------------------------------------
\* C17: a payment-succeeded event changes no row of the record store but the
\* most recent order of the event's customer email, which it marks deposit_paid
\* with the amount paid.  Nothing ties that row to the order the payment was made
\* for: the witness is a marked order that did not originate the payment.
C17_OnlyLatestOrderMarked ==
    [][(OnWebhook /\ pc = "wh_order") =>
        /\ store'.customers = store.customers
        /\ Len(store'.orders) = Len(store.orders)
        /\ \A k \in 1..Len(store.orders) :
              store'.orders[k] # store.orders[k] =>
                /\ k = Len(store.orders)
                /\ store'.orders[k].customer_email = "customer"
                /\ store'.orders[k].deposit_paid
                /\ store'.orders[k].deposit_amount = "amount_received"]_vars

C17_Witness ==
    \E k \in 1..Len(store.orders) :
        /\ store.orders[k].deposit_paid
        /\ store.orders[k].paid_for \in 1..Len(store.orders)
        /\ store.orders[k].paid_for # k
        /\ ~store.orders[store.orders[k].paid_for].deposit_paid

---------------------------------------------------------------------------
\* the e-mails of a quote run, which carry a quote document
QuoteEmailCalls ==
    IF OnSubmit /\ req.type = "quote" THEN CallsOf("resend") ELSE {}

\* the characters of an embedded text cannot end the text or the attribute value
\* they stand in, nor open a tag: none of < > " ' is among them and every & opens
\* one of the five entities
OpensEntity(str, k) ==
    \E e \in {AmpEntity, LtEntity, GtEntity, QuotEntity, AposEntity} :
        /\ k + Len(e) - 1 <= Len(str)
        /\ SubSeq(str, k, k + Len(e) - 1) = e

Inert(str) ==
    \A k \in 1..Len(str) :
        /\ str[k] \notin {"<", ">", "\"", "'"}
        /\ str[k] = "&" => OpensEntity(str, k)

EscapedSlot(sl) == sl.embedded = esc(sl.given) /\ Inert(sl.embedded)

\* C18: every text of the submission that a quote document embeds, in an element
\* or in an attribute (the image reference included), is embedded as esc made it.
C18_UserTextsEscaped ==
    \A k \in QuoteEmailCalls :
        \A n \in 1..Len(calls[k].html.slots) : EscapedSlot(calls[k].html.slots[n])


---------------------------------------------------------------------------
\* the record store answered every call of the run
StoreAnswered == \A k \in CallsOf("supabase") : calls[k].result # "fail"

OrderRowWritten ==
    \E k \in CallsOf("supabase") : calls[k].op = "orders" /\ calls[k].result = "ok"

\* C19: whatever the customer has submitted before, the record store holds at
\* most one customers row for the email, and a submission that ran to its
\* response against an answering store has written its order row.
C19_OneCustomerRowOrderEach ==
    /\ Len(store.customers) <= 1
    /\ (OnSubmit /\ pc = "done" /\ resp.status = 200 /\ StoreAnswered) => OrderRowWritten

---------------------------------------------------------------------------
\* the steps of a Quote run in the order of handleQuoteRequest
QuoteSteps == <<"invoice", "business_email", "customer_email", "task", "records", "crm">>

Rank(s) == CHOOSE n \in 1..Len(QuoteSteps) : QuoteSteps[n] = s

\* the step that makes call k
StepOfCall(k) ==
    IF calls[k].api = "stripe" THEN "invoice"
    ELSE IF calls[k].api = "resend" /\ calls[k].to = "business" THEN "business_email"
    ELSE IF calls[k].api = "resend" THEN "customer_email"
    ELSE IF calls[k].api = "clickup" THEN "task"
    ELSE IF calls[k].api = "supabase" THEN "records"
    ELSE "crm"

OnQuote == OnSubmit /\ req.type = "quote"

\* the steps are entered once each and in the fixed order, every call is made by
\* the step that has been entered last, and a run that got past the business
\* e-mail answers only after the CRM step
QuoteRunInOrder ==
    OnQuote =>
        /\ \A j, k \in 1..Len(steps) : j < k => Rank(steps[j]) < Rank(steps[k])
        /\ \A j, k \in 1..Len(calls) : j < k => Rank(StepOfCall(j)) <= Rank(StepOfCall(k))
        /\ \A k \in 1..Len(calls) : Entered(StepOfCall(k))
        /\ (resp # NoResponse /\ BusinessEmailSent) =>
              /\ pc = "done"
              /\ Len(steps) >= Len(BestEffortSteps)
              /\ SubSeq(steps, Len(steps) - Len(BestEffortSteps) + 1, Len(steps)) = BestEffortSteps

\* a step of the run makes at most one call, which has returned or failed when the
\* step is over, and makes none once the response is set
OneCallAtATime ==
    OnQuote =>
        \/ calls' = calls
        \/ calls' = <<>> /\ pc' = "idle"
        \/ /\ resp = NoResponse
           /\ Len(calls') = Len(calls) + 1
           /\ SubSeq(calls', 1, Len(calls)) = calls
           /\ calls'[Len(calls')].result \in
                 {"ok", "fail", "conflict", "url", "nourl", "none", "found", "error",
                  "reject"}

\* C20: a Quote run makes its adapter calls one at a time in the fixed order
\* invoice issuance, business e-mail, customer e-mail, task, record-store writes,
\* CRM upsert, and the response is set only after the last attempted step.
C20_QuoteCallsSequentialInOrder == []QuoteRunInOrder /\ [][OneCallAtATime]_vars

\* a finished invoice_only run that made calls in every one of the six steps
C20_Witness ==
    /\ OnQuote /\ pc = "done" /\ resp.status = 200
    /\ \A n \in 1..Len(QuoteSteps) : \E k \in 1..Len(calls) : StepOfCall(k) = QuoteSteps[n]

---------------------------------------------------------------------------
\* the stage of createStripeInvoice that makes call k
StageOfCall(k) ==
    IF calls[k].op \in {"customers.search", "customers.update", "customers.create"} THEN 1
    ELSE IF calls[k].op = "invoiceitems" /\ calls[k].to = "base" THEN 2
    ELSE IF calls[k].op = "invoiceitems" THEN 3
    ELSE IF calls[k].op = "invoices" THEN 4
    ELSE 5

\* the call did what it was made for; a search answered with an error object is
\* taken for "no such customer" and the stage goes on to create one
StripeCallSucceeded(k) ==
    \/ calls[k].result \in {"found", "none", "ok", "url", "nourl"}
    \/ calls[k].op = "customers.search" /\ calls[k].result = "error"

PricedAddons(p) == {n \in 1..Len(addonItems(p)) : Gt0(PenceOf(addonItems(p)[n]))}

StripeOkCalls(op, to) ==
    {k \in CallsOf("stripe") : calls[k].op = op /\ calls[k].to = to /\ calls[k].result = "ok"}

\* C21: the invoice issuer's calls come in the order customer, base item, add-on
\* items, invoice, finalize; a call is made only when every call before it
\* succeeded, so finalize is called only after the customer was found and updated
\* or created, the base item and one item per priced add-on were added and the
\* invoice was created.
C21_IssuanceStagesInOrder ==
    (OnSubmit /\ req.type = "quote") =>
      \A k \in CallsOf("stripe") :
        /\ \A j \in CallsOf("stripe") :
              j < k => StageOfCall(j) <= StageOfCall(k) /\ StripeCallSucceeded(j)
        /\ calls[k].op = "finalize" =>
              /\ \E j \in 1..k : /\ calls[j].op \in {"customers.update", "customers.create"}
                                   /\ calls[j].result = "ok"
              /\ Cardinality(StripeOkCalls("invoiceitems", "base")) = 1
              /\ Cardinality(StripeOkCalls("invoiceitems", "addon"))
                    = Cardinality(PricedAddons(req.p))
              /\ Cardinality(StripeOkCalls("invoices", "-")) = 1

\* an invoice with a priced add-on was finalized
C21_Witness ==
    /\ OnSubmit /\ req.type = "quote"
    /\ PricedAddons(req.p) # {}
    /\ \E k \in CallsOf("stripe") : calls[k].op = "finalize" /\ calls[k].result = "url"

---------------------------------------------------------------------------
\* the tables insertSupabaseRecord writes, in the order of its writes
StoreTables == <<"customers", "orders", "invoices", "inscriptions">>

\* the writes of this run to table t that the store accepted
RowsWritten(t) ==
    {k \in CallsOf("supabase") : calls[k].op = t /\ calls[k].result = "ok"}

\* C22: every row a run has written is in the record store, also after a later
\* write of the run has failed, and the run makes no call to the store but its
\* inserts (no delete, no compensating update).
C22_WritesNotRolledBack ==
    OnSubmit =>
        /\ \A n \in 1..Len(StoreTables) :
              Len(store[StoreTables[n]]) = Cardinality(RowsWritten(StoreTables[n]))
        /\ \A k \in CallsOf("supabase") :
              \E n \in 1..Len(StoreTables) : calls[k].op = StoreTables[n]

\* the inscription insert failed and the three rows written before it are there
C22_Witness ==
    /\ OnSubmit /\ pc = "done"
    /\ \E k \in CallsOf("supabase") : calls[k].op = "inscriptions" /\ calls[k].result = "fail"
    /\ Len(store.customers) = 1 /\ Len(store.orders) = 1 /\ Len(store.invoices) = 1
    /\ Len(store.inscriptions) = 0

---------------------------------------------------------------------------
\* the calls of the run for the same operation as call k
SameOperation(k) ==
    {j \in 1..Len(calls) :
        /\ calls[j].api = calls[k].api
        /\ calls[j].op = calls[k].op
        /\ calls[j].to = calls[k].to}

\* how often a run may make the operation of call k: once, but for the invoice
\* items, of which there is one per priced add-on or one per legacy add-on name
TimesDue(k) ==
    IF calls[k].api = "stripe" /\ calls[k].to = "addon" THEN Cardinality(PricedAddons(req.p))
    ELSE IF calls[k].api = "stripe" /\ calls[k].to = "legacy" THEN req.p.addons
    ELSE 1

CallFailed(k) == calls[k].result \in {"fail", "conflict", "error", "reject"}

\* C23: within one run no adapter operation is attempted more often than the run
\* has use for it, and none is attempted again after it failed.
C23_NoRetries ==
    OnSubmit =>
        \A k \in 1..Len(calls) :
            /\ Cardinality(SameOperation(k)) <= TimesDue(k)
            /\ CallFailed(k) => \A j \in SameOperation(k) : j <= k

\* a finished run whose customer e-mail, task and CRM upsert failed, once each
C23_Witness ==
    /\ OnSubmit /\ pc = "done" /\ resp.status = 200
    /\ \E k \in CustomerEmailCalls : calls[k].result = "fail"
    /\ \E k \in CallsOf("clickup") : calls[k].result = "fail"
    /\ \E k \in CallsOf("ghl") : calls[k].result = "fail"

---------------------------------------------------------------------------
OnEnquiry == OnSubmit /\ req.type = "enquiry"

\* C24: an Enquiry run makes no call to the invoice issuer; its record-store step
\* writes a customers row and an orders row with the enquiry category as
\* order_type, never an invoices or inscriptions row; its success response is
\* {ok: true} and nothing else.
C24_EnquiryWritesCustomerAndOrderOnly ==
    OnEnquiry =>
        /\ CallsOf("stripe") = {}
        /\ \A k \in CallsOf("supabase") : calls[k].op \in {"customers", "orders"}
        /\ store.invoices = <<>> /\ store.inscriptions = <<>>
        /\ \A n \in 1..Len(store.orders) : store.orders[n].order_type = "enquiry_type"
        /\ OrderRowWritten => Len(store.customers) = 1 /\ Len(store.orders) = 1
        /\ resp.status = 200 => resp = EnquiryOk

\* a finished enquiry whose body carried a priced product with an inscription and
\* asked for an invoice, with the issuer's key configured, and wrote its two rows
C24_Witness ==
    /\ OnEnquiry /\ pc = "done" /\ resp = EnquiryOk
    /\ req.p = StrayProduct /\ invoiceOnly(req) /\ env.STRIPE_SECRET_KEY
    /\ OrderRowWritten

---------------------------------------------------------------------------
\* the responses the handlers build with jsonResponse
HandlerResponse(r) ==
    \/ r \in {InvalidJson, MissingFields, ConfigError, NotificationFailed}
    \/ r.status = 200 /\ "ok" \in DOMAIN r.body /\ r.body.ok

\* C25: a POST to the submit endpoint that has ended has ended with one of the
\* handlers' responses: 200 {ok: true, ...}, 400 "Invalid JSON" or "Missing
\* required fields", 500 "Server configuration error" or "Failed to send
\* notification email", whatever the body (JSON null, a name that is not a
\* string and a null product included).
C25_EndsWithHandlerResponse ==
    (OnSubmit /\ pc = "done") => HandlerResponse(resp)

---------------------------------------------------------------------------
\* the items of a list that run n added
RECURSIVE ItemsBy(_, _)
ItemsBy(items, n) ==
    IF Len(items) = 0 THEN <<>>
    ELSE (IF Head(items).by = n THEN <<Head(items)>> ELSE <<>>) \o ItemsBy(Tail(items), n)

\* how many items of run n the processor holds in all, pending or on an invoice
RECURSIVE CountPending(_, _, _)
CountPending(st, n, c) ==
    IF c = 0 THEN 0
    ELSE Len(ItemsBy(st.customers[c].pending, n)) + CountPending(st, n, c - 1)

RECURSIVE CountInvoiced(_, _, _)
CountInvoiced(st, n, v) ==
    IF v = 0 THEN 0
    ELSE Len(ItemsBy(st.invoices[v].items, n)) + CountInvoiced(st, n, v - 1)

ItemsAddedBy(st, n) ==
    CountPending(st, n, Len(st.customers)) + CountInvoiced(st, n, Len(st.invoices))

\* the invoice holds the items its run added, all of them and no others
OwnItemsOnly(st, v) ==
    /\ ItemsBy(st.invoices[v].items, st.invoices[v].by) = st.invoices[v].items
    /\ Len(st.invoices[v].items) = ItemsAddedBy(st, st.invoices[v].by)

\* C26: however two invoice_only Quote runs for one email interleave, every
\* finalized invoice holds exactly the line items its run added, and the
\* processor has at most one customer for the email.
C26_ConcurrentRunsIndependent ==
    /\ Len(stripe.customers) <= 1
    /\ \A v \in 1..Len(stripe.invoices) :
          stripe.invoices[v].finalized => OwnItemsOnly(stripe, v)

\* the run's issuance failed at invoice creation or at finalize, after it had
\* added a line item
FailedAfterItems(cs) ==
    /\ Len(cs) > 0
    /\ cs[Len(cs)].op \in {"invoices", "finalize"}
    /\ cs[Len(cs)].result = "fail"
    /\ \E k \in 1..Len(cs) : cs[k].op = "invoiceitems" /\ cs[k].result = "ok"

\* the run's issuance came to a finalized invoice
IssuanceSucceeded(cs) ==
    Len(cs) > 0 /\ cs[Len(cs)].op = "finalize" /\ cs[Len(cs)].result # "fail"

\* the later run has issued its invoice after the earlier one failed with items added
LaterIssuanceAfterFailure ==
    /\ parked.pc = "q_business"
    /\ FailedAfterItems(parked.calls)
    /\ req.run = 2
    /\ pc = "q_business"
    /\ IssuanceSucceeded(calls)

\* the amounts of the line items the run posted, in order
RECURSIVE PostedItems(_)
PostedItems(cs) ==
    IF Len(cs) = 0 THEN <<>>
    ELSE (IF Head(cs).op = "invoiceitems" /\ Head(cs).result = "ok"
          THEN <<Head(cs).amount>> ELSE <<>>) \o PostedItems(Tail(cs))

\* C27: when an issuance failed after line items were added, the invoice of a
\* later successful issuance for the same email holds exactly the line items of
\* the later submission.
C27_NoResidueOfFailedIssuance ==
    LaterIssuanceAfterFailure =>
        /\ Len(stripe.invoices[invoice].items) = Len(PostedItems(calls))
        /\ \A k \in 1..Len(stripe.invoices[invoice].items) :
              /\ stripe.invoices[invoice].items[k].by = 2
              /\ stripe.invoices[invoice].items[k].amount = PostedItems(calls)[k]

\* the calls of a delivery, by kind
IsOrderUpdate(c) == c.api = "supabase" /\ c.op = "orders.patch"
IsDepositEmail(c, to) == c.api = "resend" /\ c.to = to

\* the delivery is a payment the handler processes to its end
DepositProcessed ==
    /\ req # NoRequest
    /\ req.surface = "webhook"
    /\ pc = "done"
    /\ resp = Received
    /\ EventOf(req.rawBody).type = "payment_intent.succeeded"
    /\ EventOf(req.rawBody).custEmail

\* C28: in the payment confirmation handler the business notification is
\* attempted only directly after the customer confirmation succeeded, and a
\* failed customer email is the last call of the event; the order update, when
\* made, is the first call, and whether or not it failed the customer email
\* is attempted (and after its success the business one) when email is configured.
C28_DepositEmailsCoupled ==
    (req # NoRequest /\ req.surface = "webhook") =>
        /\ \A k \in 1..Len(calls) :
              /\ IsDepositEmail(calls[k], "business") =>
                    /\ k > 1
                    /\ IsDepositEmail(calls[k - 1], "customer")
                    /\ calls[k - 1].result = "ok"
              /\ (IsDepositEmail(calls[k], "customer") /\ calls[k].result = "fail") =>
                    k = Len(calls)
              /\ IsOrderUpdate(calls[k]) => k = 1
        /\ (DepositProcessed /\ env.RESEND_API_KEY) =>
              /\ \E k \in 1..Len(calls) : IsDepositEmail(calls[k], "customer")
              /\ \A k \in 1..Len(calls) :
                    (IsDepositEmail(calls[k], "customer") /\ calls[k].result = "ok") =>
                        (k < Len(calls) /\ IsDepositEmail(calls[k + 1], "business"))

\* a failed order update followed by both emails
FailedUpdateThenBothEmails ==
    /\ DepositProcessed
    /\ Len(calls) = 3
    /\ IsOrderUpdate(calls[1]) /\ calls[1].result = "fail"
    /\ IsDepositEmail(calls[2], "customer") /\ calls[2].result = "ok"
    /\ IsDepositEmail(calls[3], "business")

\* a failed customer email with nothing after it
C28_Witness ==
    /\ DepositProcessed
    /\ Len(calls) = 2
    /\ IsOrderUpdate(calls[1])
    /\ IsDepositEmail(calls[2], "customer") /\ calls[2].result = "fail"

\* how many deliveries of the event passed the signature check
Processed == Cardinality({k \in 1..Len(steps) : steps[k] = "processed"})

\* how many calls of the log satisfy the test
OrderUpdates == Cardinality({k \in 1..Len(calls) : IsOrderUpdate(calls[k])})
DepositEmails(to) == Cardinality({k \in 1..Len(calls) : IsDepositEmail(calls[k], to)})
DepositEmailsSent(to) ==
    Cardinality({k \in 1..Len(calls) : IsDepositEmail(calls[k], to) /\ calls[k].result = "ok"})

\* no delivery is being handled
BetweenDeliveries == pc \in {"idle", "done"}

\* C29: the payment confirmation handler keeps no record of processed events:
\* after k deliveries of one authentic payment-succeeded event have passed the
\* signature check (or no secret is configured), the order update has been made
\* k times, the customer confirmation has been attempted k times, and the
\* business notification once for every customer confirmation that was sent.
C29_EveryDeliveryProcessedAgain ==
    BetweenDeliveries =>
        /\ OrderUpdates = Processed
        /\ DepositEmails("customer") = Processed
        /\ DepositEmails("business") = DepositEmailsSent("customer")
        /\ (~env.STRIPE_WEBHOOK_SECRET) => Processed = Len(steps)

\* the event was delivered MaxDeliveries times and processed each time, every
\* call succeeding
C29_Witness ==
    /\ pc = "done"
    /\ Len(steps) = MaxDeliveries
    /\ Processed = MaxDeliveries
    /\ OrderUpdates = MaxDeliveries
    /\ DepositEmailsSent("customer") = MaxDeliveries
    /\ DepositEmailsSent("business") = MaxDeliveries
    /\ store.orders[1].deposit_paid

\* the run's write to a table of the record store, 0 when it made none
WriteTo(table) ==
    IF \E k \in 1..Len(calls) : calls[k].api = "supabase" /\ calls[k].op = table
    THEN CHOOSE k \in 1..Len(calls) : calls[k].api = "supabase" /\ calls[k].op = table
    ELSE 0

Wrote(table) == WriteTo(table) > 0
WriteEnded(table, results) == Wrote(table) /\ calls[WriteTo(table)].result \in results

\* the record-store step of a submission is over
RecordStepOver == req # NoRequest /\ req.surface = "submit" /\ pc \in {"ghl", "done"}

\* a failed customer insert stops the step before the order insert, a failed order
\* insert before the invoice and inscription inserts
EarlyWritesStopTheStep ==
    /\ WriteEnded("customers", {"fail", "conflict"}) =>
          ~Wrote("orders") /\ ~Wrote("invoices") /\ ~Wrote("inscriptions")
    /\ WriteEnded("orders", {"fail"}) => ~Wrote("invoices") /\ ~Wrote("inscriptions")

\* an invoice insert that ended in one of the given ways is passed over: the
\* inscription insert is made when the product has an inscription, and no
\* invoiceId is returned
InvoiceFailurePassedOver(results) ==
    (RecordStepOver /\ WriteEnded("invoices", results)) =>
        /\ sbInscription => Wrote("inscriptions")
        /\ invoiceId = "null"

\* a failed inscription insert makes the step report failure (the caller's
\* invoiceId stays null) although the rows written before it exist
InscriptionFailureFailsTheStep ==
    (RecordStepOver /\ WriteEnded("inscriptions", {"fail"})) =>
        /\ invoiceId = "null"
        /\ Len(store.customers) > 0
        /\ Len(store.orders) > 0
        /\ WriteEnded("invoices", {"ok"}) => Len(store.invoices) > 0

\* C30 as stated: inside the record-store step a failed customer insert stops
\* the step before the order insert and a failed order insert before the
\* invoice and inscription inserts, whereas a failed invoice insert, however
\* it failed, is only logged, the inscription insert is still attempted and no
\* invoiceId is returned; a failed inscription insert makes the step report
\* failure although the rows written before it exist.
C30_WritesFailDifferently ==
    /\ EarlyWritesStopTheStep
    /\ InvoiceFailurePassedOver({"fail", "reject"})
    /\ InscriptionFailureFailsTheStep

\* C30, amended: as above, with the invoice insert passed over when the store
\* answered it with an error status; when its fetch is rejected the step stops
\* there, with no inscription insert and no invoiceId.
C30_WritesFailDifferentlyByKind ==
    /\ EarlyWritesStopTheStep
    /\ InvoiceFailurePassedOver({"fail"})
    /\ WriteEnded("invoices", {"reject"}) => ~Wrote("inscriptions") /\ invoiceId = "null"
    /\ InscriptionFailureFailsTheStep

\* an invoice insert answered with an error status, followed by the inscription
\* insert, the run answered without an invoiceId
C30_Witness ==
    /\ RecordStepOver
    /\ pc = "done"
    /\ WriteEnded("invoices", {"fail"})
    /\ Wrote("inscriptions")
    /\ WriteTo("invoices") < WriteTo("inscriptions")
    /\ invoiceId = "null"

==========================================================================
